---- MODULE Spec2Model ----
(***************************************************************************)
(* A model of the inject IoC container: SafeInjector (safe.go) and the     *)
(* annotations Literal, Provider, Singleton, Sequence and Mapping.         *)
(*                                                                         *)
(* Every binding the program allocates is a record of `heap'; a closure's  *)
(* captured variables are fields of that record (inner, prev, to, on) and  *)
(* the mutable captures of a Singleton (isCached, cached) live in `cells'. *)
(* Get, Call, Bind, BindTo and Install are each one action: the recursive  *)
(* build of a value is evaluated by the operators getReflected, Build,     *)
(* Call and friends, which thread the mutable memory `m' through the       *)
(* evaluation exactly in the order the Go code runs.                       *)
(***************************************************************************)
EXTENDS Integers, Sequences, FiniteSets, TLC

\* ------------------------------------------------------------------ bounds

\* Bindings registered over a run, those of SafeNew aside.
MaxBinds == 3
\* Invocations of one provider function over a run.
MaxCalls == 3
\* Distinct payloads of the literal values bound.
NumLit == 2
\* Distinct keys of the maps bound.
NumKeys == 2
\* Containers of a run: the root and its descendants.
MaxContainers == 2
\* Bindings registered over a run that has child containers, and invocations
\* of one provider function over such a run.
MaxChildBinds == 2
MaxChildCalls == 1
\* Bindings registered over a run in which every operation is performed on
\* every container.
MaxIsolationBinds == 1
\* Goroutines that call Get at the same time.
NumThreads == 2

\* ------------------------------------------------------------------- types

\* reflect.Type values of the run: the types the tests use.
ScalarTypes == {"int", "string", "NQS", "NQA", "func"}
InterfaceTypes == {"Stringer", "SafeBinder", "Binder"}
\* *rtype is the dynamic type of a reflect.Type value.
PtrTypes == {"*Stringer", "*SafeBinder", "*SafeInjector", "*Injector", "*rtype"}
SliceTypes == {"[]int", "[]NQS", "[]NQA", "[]Stringer"}
MapTypes == {"map[string]int", "map[string]NQS", "map[string]NQA", "map[int]NQS",
             "map[string]Stringer"}
Types == ScalarTypes \cup InterfaceTypes \cup PtrTypes \cup SliceTypes \cup MapTypes

\* reflect.Type.Kind()
Kind(t) ==
  CASE t \in InterfaceTypes -> "interface"
    [] t \in PtrTypes -> "ptr"
    [] t \in SliceTypes -> "slice"
    [] t \in MapTypes -> "map"
    [] OTHER -> "scalar"

\* reflect.Type.Elem() of a pointer, slice or map type
Elem(t) ==
  CASE t = "*Stringer" -> "Stringer"
    [] t = "*SafeBinder" -> "SafeBinder"
    [] t = "*SafeInjector" -> "SafeInjector"
    [] t = "*Injector" -> "Injector"
    [] t = "*rtype" -> "rtype"
    [] t = "[]int" -> "int"
    [] t = "[]NQS" -> "NQS"
    [] t = "[]NQA" -> "NQA"
    [] t = "[]Stringer" -> "Stringer"
    [] t = "map[string]int" -> "int"
    [] t = "map[string]NQS" -> "NQS"
    [] t = "map[string]NQA" -> "NQA"
    [] t = "map[int]NQS" -> "NQS"
    [] t = "map[string]Stringer" -> "Stringer"
    [] OTHER -> "none"

\* reflect.Type.Key() of a map type
Key(t) ==
  CASE t = "map[int]NQS" -> "int"
    [] t \in MapTypes -> "string"
    [] OTHER -> "none"

\* reflect.Type.Implements(): the method sets of the test types. notQuiteStringer
\* and notQuiteAnotherStringer have String(); *SafeInjector has the Bind, BindTo
\* and Install that return an error, *Injector those that return a Binder.
Implements(t, i) ==
  \/ t = i /\ i \in InterfaceTypes
  \/ i = "Stringer" /\ t \in {"NQS", "NQA"}
  \/ i = "SafeBinder" /\ t = "*SafeInjector"
  \/ i = "Binder" /\ t = "*Injector"

\* A pointer to an interface: the token by which an interface is named.
IsPtrToInterface(t) == Kind(t) = "ptr" /\ Kind(Elem(t)) = "interface"

\* reflect.Type.ConvertibleTo(): int and notQuiteStringer (an int) and
\* notQuiteAnotherStringer (a float32) convert to one another, an integer
\* converts to a string, and a type converts to an interface it implements.
IntLike == {"int", "NQS"}
Numeric == IntLike \cup {"NQA"}
\* ConvertibleTo, were every type to convert to every other.
ConvertibleToAny(t, u) == TRUE
ConvertibleTo(t, u) ==
  \/ t = u
  \/ t \in Numeric /\ u \in Numeric
  \/ t \in IntLike /\ u = "string"
  \/ Kind(u) = "interface" /\ Implements(t, u)

\* ------------------------------------------------------------------ values

\* One element of a value: its dynamic type, the binding whose function made it
\* (0: a literal), the number of the invocation that made it (a literal: its
\* payload) and the first argument it was computed from.
Atom(dyn, src, n, dep) == [dyn |-> dyn, src |-> src, n |-> n, dep |-> dep]
Absent == Atom("none", 0, 0, <<>>)
\* The nil interface{} value.
Nil == <<Atom("nil", 0, 0, <<>>)>>

\* Keys of the maps of the run.
Keys == 1 .. NumKeys
EmptyMap == [k \in Keys |-> Absent]
MapOf(k, a) == [EmptyMap EXCEPT ![k] = a]

\* The container itself as a value.
Self(c) == <<Atom("*SafeInjector", 0, c, <<>>)>>

\* ------------------------------------------------------------------ errors

\* An error is the chain of messages fmt.Errorf wraps, outermost first: each
\* with the argument position and the function type it names, if any.
NoErr == <<>>
NoSig == [ins |-> <<>>, outs |-> <<>>]
Msg(e, k, ft) == [e |-> e, k |-> k, ft |-> ft]
Err(e) == <<Msg(e, 0, NoSig)>>
\* "couldn't inject argument %d of %s: %s", were it always to say argument 1
WrapFirst(k, ft, err) == <<Msg("inject", 1, ft)>> \o err
\* "couldn't inject argument %d of %s: %s", ai+1, ft, err
Wrap(k, ft, err) == <<Msg("inject", k, ft)>> \o err
Cause(err) == IF err = NoErr THEN "none" ELSE err[Len(err)].e

\* --------------------------------------------------------------- functions

\* The functions of the run, by name: provider functions, module methods and
\* the targets of Call. ins: ft.In(0..), outs: ft.Out(0..).
Sig(ins, outs) == [ins |-> ins, outs |-> outs]
FuncSig(f) ==
  CASE f = "fInt" -> Sig(<<>>, <<"int">>)
    [] f = "fStr" -> Sig(<<>>, <<"string">>)
    [] f = "fStrOfInt" -> Sig(<<"int">>, <<"string">>)
    [] f = "fIntOfStr" -> Sig(<<"string">>, <<"int">>)
    [] f = "fIntE" -> Sig(<<>>, <<"int", "error">>)
    [] f = "fIntOfInt" -> Sig(<<"int">>, <<"int">>)
    [] f = "fNothing" -> Sig(<<"int">>, <<>>)
    [] f = "fErr" -> Sig(<<>>, <<"error">>)
    [] f = "fIntStr" -> Sig(<<>>, <<"int", "string">>)
    [] f = "fIntStrE" -> Sig(<<>>, <<"int", "string", "error">>)
    [] f = "fInts" -> Sig(<<>>, <<"[]int">>)
    [] f = "fIntsE" -> Sig(<<>>, <<"[]int", "error">>)
    [] f = "fIntsOfStr" -> Sig(<<"string">>, <<"[]int">>)
    [] f = "fNQSs" -> Sig(<<>>, <<"[]NQS">>)
    [] f = "fNQSsOfStringers" -> Sig(<<"[]Stringer">>, <<"[]NQS">>)
    [] f = "fMap" -> Sig(<<>>, <<"map[string]int">>)
    [] f = "fMapE" -> Sig(<<>>, <<"map[string]int", "error">>)
    [] f = "fMapOfStr" -> Sig(<<"string">>, <<"map[string]int">>)
    [] f = "fNQSMap" -> Sig(<<>>, <<"map[string]NQS">>)
    [] f = "fNQS" -> Sig(<<>>, <<"NQS">>)
    [] f = "fNQSOfInt" -> Sig(<<"int">>, <<"NQS">>)
    [] f = "A.ProvideInt" -> Sig(<<"string">>, <<"int">>)
    [] f = "B.ProvideString" -> Sig(<<"int">>, <<"string">>)
    [] f = "Param.ProvideInt" -> Sig(<<>>, <<"int">>)
    [] f = "useStringer" -> Sig(<<"Stringer">>, <<"error">>)
    [] f = "useStringers" -> Sig(<<"[]Stringer">>, <<"error">>)
    [] f = "useStrInt" -> Sig(<<"string", "int">>, <<>>)
    [] f = "useInts" -> Sig(<<"[]int">>, <<>>)
    [] f = "useSafeBinder" -> Sig(<<"SafeBinder">>, <<>>)
    [] f = "useBinder" -> Sig(<<"Binder">>, <<>>)
    [] f = "fIntOfSafeBinder" -> Sig(<<"SafeBinder">>, <<"int">>)
    [] f = "useMap" -> Sig(<<"map[string]int">>, <<>>)
    [] f = "useStrIntE" -> Sig(<<"string", "int">>, <<"int", "string", "error">>)
    [] f = "useNothingE" -> Sig(<<>>, <<"error">>)
    [] OTHER -> Sig(<<>>, <<>>)

\* The key a map-returning function sets.
FuncKey(f) == IF f = "fMapOfStr" THEN 1 ELSE NumKeys

\* The module type whose fields a method reads: testModuleParam's ProvideInt
\* returns t.param.
FuncModule(f) == IF f = "Param.ProvideInt" THEN "Param" ELSE "none"

\* ------------------------------------------------------------- annotations

\* A thing handed to Bind: a bare function, a bare value, or an annotation
\* (ann: its nodes, outermost first, ending in "Provider" or "Literal").
Thing(raw, ann, isFunc, f, t, v) ==
  [raw |-> raw, ann |-> ann, isFunc |-> isFunc, f |-> f, t |-> t, v |-> v]
Value(t, v) == Thing(TRUE, <<>>, FALSE, "none", t, v)
Func(f) == Thing(TRUE, <<>>, TRUE, f, "func", <<Atom("func", 0, 1, <<>>)>>)

\* Annotate: a function becomes a Provider, an Annotation is returned as it
\* is, any other value becomes a Literal.
Annotate(x) ==
  IF x.isFunc /\ x.raw THEN <<"Provider">>
  ELSE IF ~x.raw THEN x.ann
  ELSE <<"Literal">>

Literal(x) == [x EXCEPT !.raw = FALSE, !.ann = <<"Literal">>]
Provider(x) == [x EXCEPT !.raw = FALSE, !.ann = <<"Provider">>]
\* Singleton, Sequence and Mapping keep v and Annotate it when they are built.
Singleton(x) == [x EXCEPT !.raw = FALSE, !.ann = <<"Singleton">> \o Annotate(x)]
Sequence(x) == [x EXCEPT !.raw = FALSE, !.ann = <<"Sequence">> \o Annotate(x)]
Mapping(x) == [x EXCEPT !.raw = FALSE, !.ann = <<"Mapping">> \o Annotate(x)]

\* Annotation.Is: Singleton and Sequence ask their child too, Mapping does not.
RECURSIVE Is(_, _)
Is(ann, kind) ==
  CASE ann[1] \in {"Singleton", "Sequence"} -> ann[1] = kind \/ Is(Tail(ann), kind)
    [] OTHER -> ann[1] = kind

\* -------------------------------------------------------------------- state

VARIABLES
  parent,        \* SafeInjector.parent of each container created (0: none)
  bindings,      \* SafeInjector.bindings: type -> binding (0: no entry)
  bindingOrder,  \* SafeInjector.bindingOrder
  stack,         \* SafeInjector.stack: the types under construction
  modules,       \* SafeInjector.modules: module type -> installed instance
  heap,          \* every Binding allocated, with what its Build closure captured
  cells,         \* isCached and cached of each Singleton closure
  calls,         \* how often the function of each binding has been invoked
  config,        \* Injector.Config of each container (inject.go: Configure)
  threads,       \* each goroutine inside Get: its frames of getReflected, its result
  last           \* the last operation and what it returned

vars == <<parent, bindings, bindingOrder, stack, modules, heap, cells, calls, config, threads,
          last>>

Containers == DOMAIN parent

\* A Binding and the captures of its Build closure.
Binding(kind, provides, requires, val, fn, inner, prev, to, on) ==
  [kind |-> kind, Provides |-> provides, Requires |-> requires, val |-> val,
   fn |-> fn, inner |-> inner, prev |-> prev, to |-> to, on |-> on]

NoCell == [isCached |-> FALSE, cached |-> Nil]

\* ------------------------------------------------------- Annotation.Build

\* What an Annotation.Build returns: an error, or the Binding (its id) and the
\* heap with the Bindings allocated on the way.
Built(err, h, id) == [err |-> err, h |-> h, id |-> id]

\* literalAnnotation.Build
literalBuild(x, c, h) ==
  Built(NoErr, Append(h, Binding("literal", x.t, <<>>, x.v, "none", 0, 0, "none", c)), Len(h) + 1)

\* providerType.Build: ft.Out(0) of a function without results panics.
providerBuild(x, c, h) ==
  LET sig == FuncSig(x.f)
      ok == Built(NoErr, Append(h, Binding("provider", sig.outs[1], sig.ins, Nil, x.f, 0, 0, "none", c)),
                  Len(h) + 1)
  IN  IF ~x.isFunc THEN Built(Err("shape"), h, 0)
      ELSE IF Len(sig.outs) = 0 THEN Built(Err("panic"), h, 0)
      ELSE IF Len(sig.outs) = 1
        THEN (IF sig.outs[1] = "error" THEN Built(Err("shape"), h, 0) ELSE ok)
      ELSE IF Len(sig.outs) = 2
        THEN (IF sig.outs[2] # "error" THEN Built(Err("shape"), h, 0) ELSE ok)
      ELSE Built(Err("shape"), h, 0)

\* singletonType.Build, given what next.Build returned
singletonBuild(next, b, c) ==
  IF ~Is(next, "Provider") THEN Built(Err("notprovider"), b.h, 0)
  ELSE IF b.err # NoErr THEN Built(b.err, b.h, 0)
  ELSE Built(NoErr,
             Append(b.h, Binding("singleton", b.h[b.id].Provides, b.h[b.id].Requires, Nil, "none",
                                 b.id, 0, "none", c)),
             Len(b.h) + 1)

\* sequenceType.Build, given what Annotate(s.v).Build returned; tbl is i.bindings
sequenceBuild(b, c, tbl) ==
  IF b.err # NoErr THEN Built(b.err, b.h, 0)
  ELSE IF Kind(b.h[b.id].Provides) # "slice" THEN Built(Err("shape"), b.h, 0)
  ELSE Built(NoErr,
             Append(b.h, Binding("sequence", b.h[b.id].Provides, b.h[b.id].Requires, Nil, "none",
                                 b.id, tbl[b.h[b.id].Provides], "none", c)),
             Len(b.h) + 1)

\* mappingType.Build
mappingBuild(b, c, tbl) ==
  IF b.err # NoErr THEN Built(b.err, b.h, 0)
  ELSE IF Kind(b.h[b.id].Provides) # "map" THEN Built(Err("shape"), b.h, 0)
  ELSE Built(NoErr,
             Append(b.h, Binding("mapping", b.h[b.id].Provides, b.h[b.id].Requires, Nil, "none",
                                 b.id, tbl[b.h[b.id].Provides], "none", c)),
             Len(b.h) + 1)

\* Annotation.Build of the annotation ann around the thing x, on container c.
RECURSIVE annotationBuild(_, _, _, _, _)
annotationBuild(ann, x, c, h, tbl) ==
  CASE ann[1] = "Literal" -> literalBuild(x, c, h)
    [] ann[1] = "Provider" -> providerBuild(x, c, h)
    [] ann[1] = "Singleton" ->
         IF ~Is(Tail(ann), "Provider") THEN Built(Err("notprovider"), h, 0)
         ELSE singletonBuild(Tail(ann), annotationBuild(Tail(ann), x, c, h, tbl), c)
    [] ann[1] = "Sequence" -> sequenceBuild(annotationBuild(Tail(ann), x, c, h, tbl), c, tbl)
    [] OTHER -> mappingBuild(annotationBuild(Tail(ann), x, c, h, tbl), c, tbl)

\* --------------------------------------------------------------- resolution

\* The Binding resolve returns: one of the heap (id), or one synthesized by
\* resolveSlice or resolveMapping (id = 0) that captured the bindings ids.
Ref(err, id, agg, ids, provides) ==
  [err |-> err, id |-> id, agg |-> agg, ids |-> ids, Provides |-> provides]
Unbound == Ref(Err("unbound"), 0, "none", <<>>, "none")

\* The bindings resolveSlice collects: one per entry of bindingOrder that is a
\* slice type with an element type implementing et.
sliceMatches(c, t) ==
  LET sel == SelectSeq(bindingOrder[c],
                       LAMBDA bt : Kind(bt) = "slice" /\ Implements(Elem(bt), Elem(t)))
  IN  [i \in 1 .. Len(sel) |-> bindings[c][sel[i]]]

resolveSlice(c, t) == Ref(NoErr, 0, "slice", sliceMatches(c, t), t)

\* What resolveMapping would collect, were it not to compare the key types.
mappingMatchesAnyKey(c, t) ==
  LET sel == SelectSeq(bindingOrder[c],
                       LAMBDA bt : Kind(bt) = "map" /\ Implements(Elem(bt), Elem(t)))
  IN  [i \in 1 .. Len(sel) |-> bindings[c][sel[i]]]

\* The bindings resolveMapping collects.
mappingMatches(c, t) ==
  LET sel == SelectSeq(bindingOrder[c],
                       LAMBDA bt : Kind(bt) = "map" /\ Key(bt) = Key(t)
                                   /\ Implements(Elem(bt), Elem(t)))
  IN  [i \in 1 .. Len(sel) |-> bindings[c][sel[i]]]

resolveMapping(c, t) == Ref(NoErr, 0, "map", mappingMatches(c, t), t)

\* The interface scan, were it to match nothing.
scanNone(c, t) == {}

\* The keys the interface scan of resolve may return: it ranges over a Go map,
\* whose iteration order is not specified.
scanKeys(c, t) == {bt \in Types : bindings[c][bt] # 0 /\ Implements(bt, t)}

\* A fixed enumeration of a set of types, for the scan to pick its ord-th.
RECURSIVE Enum(_)
Enum(S) == IF S = {} THEN <<>>
           ELSE LET x == CHOOSE y \in S : TRUE IN <<x>> \o Enum(S \ {x})
Pick(S, ord) == Enum(S)[(ord % Cardinality(S)) + 1]

\* resolve, were the interface scan to come before the exact match.
RECURSIVE resolveScanFirst(_, _, _)
resolveScanFirst(c, t, ord) ==
  IF Kind(t) = "interface" /\ scanKeys(c, t) # {}
    THEN LET id == bindings[c][Pick(scanKeys(c, t), ord)]
         IN  Ref(NoErr, id, "none", <<>>, heap[id].Provides)
  ELSE IF bindings[c][t] # 0
    THEN Ref(NoErr, bindings[c][t], "none", <<>>, heap[bindings[c][t]].Provides)
  ELSE IF Kind(t) = "slice" /\ Kind(Elem(t)) = "interface" THEN resolveSlice(c, t)
  ELSE IF Kind(t) = "map" /\ Kind(Elem(t)) = "interface" THEN resolveMapping(c, t)
  ELSE IF parent[c] # 0 THEN resolveScanFirst(parent[c], t, ord)
  ELSE Unbound

\* SafeInjector.resolve; ord decides which binding the interface scan meets first.
RECURSIVE resolve(_, _, _)
resolve(c, t, ord) ==
  IF bindings[c][t] # 0
    THEN Ref(NoErr, bindings[c][t], "none", <<>>, heap[bindings[c][t]].Provides)
  ELSE IF Kind(t) = "interface" /\ scanKeys(c, t) # {}
    THEN LET id == bindings[c][Pick(scanKeys(c, t), ord)]
         IN  Ref(NoErr, id, "none", <<>>, heap[id].Provides)
  ELSE IF Kind(t) = "slice" /\ Kind(Elem(t)) = "interface" THEN resolveSlice(c, t)
  ELSE IF Kind(t) = "map" /\ Kind(Elem(t)) = "interface" THEN resolveMapping(c, t)
  ELSE IF parent[c] # 0 THEN resolve(parent[c], t, ord)
  ELSE Unbound

\* ------------------------------------------------------------------ building

\* The memory a build reads and writes: the Singleton closures' cells, the
\* invocation counts, each container's stack, the Mutexes held, how often the
\* function the caller handed to Call has run, and the two choices the
\* environment makes (which functions return an error, and ord).
Mem(cl, ca, st, fail, ord) ==
  [cells |-> cl, calls |-> ca, stack |-> st, held |-> {}, ran |-> 0, fail |-> fail, ord |-> ord]

Res(m, err, val) == [m |-> m, err |-> err, val |-> val]

\* A goroutine blocked on a Mutex it holds never returns and runs no defer; a
\* panic unwinds through every caller, running the defers.
Dead(err) == Cause(err) = "deadlock"
Panicked(err) == Cause(err) = "panic"
Abnormal(err) == Dead(err) \/ Panicked(err)

\* reflect.Value.Convert of a built value
Convert(val, to) == [i \in 1 .. Len(val) |-> [val[i] EXCEPT !.dyn = to]]

\* SetMapIndex, were it to keep a key that is already set.
OverlayKeepFirst(out, over) == [k \in Keys |-> IF out[k] # Absent THEN out[k] ELSE over[k]]

\* out.SetMapIndex(k, v) for every key of the map over
Overlay(out, over) == [k \in Keys |-> IF over[k] # Absent THEN over[k] ELSE out[k]]

RECURSIVE getReflected(_, _, _)
RECURSIVE Build(_, _)
RECURSIVE providerClosure(_, _)
RECURSIVE inject(_, _, _, _, _)
RECURSIVE Call(_, _, _, _)
RECURSIVE aggregate(_, _, _, _, _)

\* What invocation number n of the function of binding id returns first, given
\* its arguments: a fresh value each time, as a provider that allocates does.
\* A method that reads a field of its module computes from what the field holds
\* now: its receiver is the module instance recorded in s.modules.
FnOut(f, id, n, args) ==
  LET rt == FuncSig(f).outs[1]
      dep == IF FuncModule(f) # "none" THEN <<0, modules[heap[id].on][FuncModule(f)][1]>>
             ELSE IF args = <<>> \/ args[1] = <<>> THEN <<>>
             ELSE <<args[1][1].src, args[1][1].n>>
  IN  CASE Kind(rt) = "slice" -> <<Atom(Elem(rt), id, n, dep)>>
        [] Kind(rt) = "map" -> MapOf(FuncKey(f), Atom(Elem(rt), id, n, dep))
        [] OTHER -> <<Atom(rt, id, n, dep)>>

\* The i-th value that invocation returns.
FnRet(f, i, id, n, args) ==
  IF i = 1 THEN FnOut(f, id, n, args) ELSE <<Atom(FuncSig(f).outs[i], id, n, <<>>)>>

\* What Call returns once f has run, were it to wrap the error f returned.
returnsWrapped(m1, f, id, args) ==
  LET sig == FuncSig(f)
      fails == Len(sig.outs) > 0 /\ sig.outs[Len(sig.outs)] = "error" /\ f \in m1.fail
  IN  IF fails THEN Res(m1, <<Msg("call", 0, sig)>> \o Err("failed"), <<>>)
      ELSE Res(m1, NoErr,
               [i \in 1 .. Len(sig.outs) |->
                  IF sig.outs[i] = "error" THEN Nil
                  ELSE FnRet(f, i, id, IF id = 0 THEN 0 ELSE m1.calls[id], args)])

\* What Call returns once f has run with the arguments args, m1 being the
\* memory then: the error f returned last, if it is not nil, and else every
\* value f returned.
returns(m1, f, id, args) ==
  LET sig == FuncSig(f)
      fails == Len(sig.outs) > 0 /\ sig.outs[Len(sig.outs)] = "error" /\ f \in m1.fail
  IN  IF fails THEN Res(m1, Err("failed"), <<>>)
      ELSE Res(m1, NoErr,
               [i \in 1 .. Len(sig.outs) |->
                  IF sig.outs[i] = "error" THEN Nil
                  ELSE FnRet(f, i, id, IF id = 0 THEN 0 ELSE m1.calls[id], args)])

\* SafeInjector.Call of function f (the function of binding id, or id = 0 for a
\* function the caller hands in): val is the list of f's return values.
Call(m, c, f, id) ==
  LET sig == FuncSig(f)
      \* fv.Call(args), a being what the argument loop returned and m1 the
      \* memory once f has run
      called(a, m1) ==
        IF a.err # NoErr THEN Res(a.m, a.err, <<>>)
        \* reflect.ValueOf(nil) is the zero Value, which Value.Call refuses
        ELSE IF \E i \in 1 .. Len(a.val) : a.val[i] = Nil THEN Res(a.m, Err("panic"), <<>>)
        ELSE returns(m1, f, id, a.val)
      injected(a) ==
        called(a, [a.m EXCEPT !.calls = IF id = 0 THEN @ ELSE [@ EXCEPT ![id] = @ + 1],
                              !.ran = IF id = 0 THEN @ + 1 ELSE @])
  IN  injected(inject(m, c, sig, 1, <<>>))

\* The argument loop of Call, from argument ai on.
inject(m, c, ft, ai, args) ==
  LET got(a) ==
        IF Abnormal(a.err) THEN Res(a.m, a.err, <<>>)
        ELSE IF a.err # NoErr THEN Res(a.m, Wrap(ai, ft, a.err), <<>>)
        ELSE inject(a.m, c, ft, ai + 1, Append(args, a.val))
  IN  IF ai > Len(ft.ins) THEN Res(m, NoErr, args)
      ELSE got(getReflected(m, c, ft.ins[ai]))

\* providerType's closure, were it to keep what it built as a Singleton does.
providerClosureMemo(m, id) ==
  LET called(rv) ==
        IF rv.err # NoErr THEN Res(rv.m, rv.err, Nil)
        ELSE Res([rv.m EXCEPT !.cells[id] = [isCached |-> TRUE, cached |-> rv.val[1]]],
                 NoErr, rv.val[1])
  IN  IF m.cells[id].isCached THEN Res(m, NoErr, m.cells[id].cached)
      ELSE called(Call(m, heap[id].on, heap[id].fn, id))

\* providerType's closure, were it to inject on a child of the container the
\* provider was bound on.
providerClosureOnChild(m, id) ==
  LET called(rv) ==
        IF rv.err # NoErr THEN Res(rv.m, rv.err, Nil) ELSE Res(rv.m, NoErr, rv.val[1])
      kids == {d \in Containers : parent[d] = heap[id].on}
  IN  called(Call(m, IF kids = {} THEN heap[id].on ELSE CHOOSE d \in kids : TRUE,
                  heap[id].fn, id))

\* The Build closure of providerType.Build: i.Call(f), then the first return value.
providerClosure(m, id) ==
  LET called(rv) ==
        IF rv.err # NoErr THEN Res(rv.m, rv.err, Nil) ELSE Res(rv.m, NoErr, rv.val[1])
  IN  called(Call(m, heap[id].on, heap[id].fn, id))

\* singletonType's closure without its isCached test: it builds every time.
singletonClosureNoCache(m, id) ==
  LET built(r) ==
        IF Dead(r.err) THEN r
        ELSE IF Panicked(r.err) THEN Res([r.m EXCEPT !.held = @ \ {id}], r.err, Nil)
        ELSE Res([r.m EXCEPT !.held = @ \ {id},
                             !.cells[id] = [isCached |-> TRUE, cached |-> r.val]],
                 r.err, r.val)
  IN  IF id \in m.held THEN Res(m, Err("deadlock"), Nil)
      ELSE built(Build([m EXCEPT !.held = @ \cup {id}], heap[id].inner))

\* The Build closure of singletonType.Build: lock, build unless cached, unlock.
singletonClosure(m, id) ==
  LET built(r) ==
        IF Dead(r.err) THEN r
        ELSE IF Panicked(r.err) THEN Res([r.m EXCEPT !.held = @ \ {id}], r.err, Nil)
        ELSE Res([r.m EXCEPT !.held = @ \ {id},
                             !.cells[id] = [isCached |-> TRUE, cached |-> r.val]],
                 r.err, r.val)
  IN  IF id \in m.held THEN Res(m, Err("deadlock"), Nil)
      ELSE IF m.cells[id].isCached THEN Res(m, NoErr, m.cells[id].cached)
      ELSE built(Build([m EXCEPT !.held = @ \cup {id}], heap[id].inner))

\* sequenceType's closure, were it to append in the opposite order.
sequenceClosureReversed(m, id) ==
  LET appended(p, v) ==
        IF p.err # NoErr THEN Res(p.m, p.err, Nil)
        ELSE IF p.val = Nil THEN Res(p.m, Err("panic"), Nil)
        ELSE IF v.err # NoErr THEN Res(v.m, v.err, Nil)
        ELSE IF v.val = Nil THEN Res(v.m, Err("panic"), Nil)
        ELSE Res(v.m, NoErr, v.val \o p.val)
      after(p) == appended(p, Build(p.m, heap[id].inner))
  IN  after(IF heap[id].prev # 0 THEN Build(m, heap[id].prev) ELSE Res(m, NoErr, <<>>))

\* sequenceType's closure, were it to build the provider inside a Singleton
\* instead of the Singleton.
sequenceClosureUnwrapped(m, id) ==
  LET appended(p, v) ==
        IF p.err # NoErr THEN Res(p.m, p.err, Nil)
        ELSE IF p.val = Nil THEN Res(p.m, Err("panic"), Nil)
        ELSE IF v.err # NoErr THEN Res(v.m, v.err, Nil)
        ELSE IF v.val = Nil THEN Res(v.m, Err("panic"), Nil)
        ELSE Res(v.m, NoErr, p.val \o v.val)
      after(p) == appended(p, Build(p.m, IF heap[heap[id].inner].kind = "singleton"
                                           THEN heap[heap[id].inner].inner
                                         ELSE heap[id].inner))
  IN  after(IF heap[id].prev # 0 THEN Build(m, heap[id].prev) ELSE Res(m, NoErr, <<>>))

\* The Build closure of sequenceType.Build: what the binding found in the table
\* builds (next), then what this one builds, appended.
sequenceClosure(m, id) ==
  LET appended(p, v) ==
        IF p.err # NoErr THEN Res(p.m, p.err, Nil)
        \* reflect.AppendSlice of reflect.ValueOf(nil) panics
        ELSE IF p.val = Nil THEN Res(p.m, Err("panic"), Nil)
        ELSE IF v.err # NoErr THEN Res(v.m, v.err, Nil)
        ELSE IF v.val = Nil THEN Res(v.m, Err("panic"), Nil)
        ELSE Res(v.m, NoErr, p.val \o v.val)
      after(p) == appended(p, Build(p.m, heap[id].inner))
  IN  after(IF heap[id].prev # 0 THEN Build(m, heap[id].prev) ELSE Res(m, NoErr, <<>>))

\* The Build closure of mappingType.Build: the keys of prev, then those of this one.
mappingClosure(m, id) ==
  LET overlaid(p, v) ==
        IF p.err # NoErr THEN Res(p.m, p.err, Nil)
        \* MapKeys of reflect.ValueOf(nil) panics
        ELSE IF p.val = Nil THEN Res(p.m, Err("panic"), Nil)
        ELSE IF v.err # NoErr THEN Res(v.m, v.err, Nil)
        ELSE IF v.val = Nil THEN Res(v.m, Err("panic"), Nil)
        ELSE Res(v.m, NoErr, Overlay(p.val, v.val))
      after(p) == overlaid(p, Build(p.m, heap[id].inner))
  IN  after(IF heap[id].prev # 0 THEN Build(m, heap[id].prev) ELSE Res(m, NoErr, EmptyMap))

\* The Build closure of BindTo: build, then Convert.
convertClosure(m, id) ==
  LET built(r) ==
        IF r.err # NoErr THEN Res(r.m, r.err, Nil)
        ELSE IF r.val = Nil THEN Res(r.m, Err("panic"), Nil)
        ELSE Res(r.m, NoErr, Convert(r.val, heap[id].to))
  IN  built(Build(m, heap[id].inner))

\* Binding.Build of the binding id of the heap.
Build(m, id) ==
  CASE heap[id].kind = "literal" -> Res(m, NoErr, heap[id].val)
    [] heap[id].kind = "provider" -> providerClosure(m, id)
    [] heap[id].kind = "singleton" -> singletonClosure(m, id)
    [] heap[id].kind = "sequence" -> sequenceClosure(m, id)
    [] heap[id].kind = "mapping" -> mappingClosure(m, id)
    [] OTHER -> convertClosure(m, id)

\* The Build closure of resolveSlice and of resolveMapping, from bindings[i] on.
aggregate(m, agg, ids, i, out) ==
  LET built(r) ==
        IF r.err # NoErr THEN Res(r.m, r.err, Nil)
        ELSE IF r.val = Nil THEN Res(r.m, Err("panic"), Nil)
        ELSE aggregate(r.m, agg, ids, i + 1,
                       IF agg = "slice" THEN out \o r.val ELSE Overlay(out, r.val))
  IN  IF i > Len(ids) THEN Res(m, NoErr, out)
      ELSE built(Build(m, ids[i]))

\* Build of what resolve returned.
buildRef(m, r) ==
  IF r.id # 0 THEN Build(m, r.id)
  ELSE aggregate(m, r.agg, r.ids, 1, IF r.agg = "slice" THEN <<>> ELSE EmptyMap)

\* getReflected without its deferred delete(s.stack, binding.Provides).
getReflectedNoDefer(m, c, t) ==
  LET resolved(r) ==
        IF r.err # NoErr THEN Res(m, r.err, Nil)
        ELSE IF r.Provides \in m.stack[c] THEN Res(m, Err("recursive"), Nil)
        ELSE buildRef([m EXCEPT !.stack[c] = @ \cup {r.Provides}], r)
  IN  resolved(resolve(c, IF IsPtrToInterface(t) THEN Elem(t) ELSE t, m.ord))

\* getReflected, were it to delete(s.stack, binding.Provides) only after a
\* Build that returned no error.
getReflectedLeaky(m, c, t) ==
  LET resolved(r) ==
        IF r.err # NoErr THEN Res(m, r.err, Nil)
        ELSE IF r.Provides \in m.stack[c] THEN Res(m, Err("recursive"), Nil)
        ELSE LET b == buildRef([m EXCEPT !.stack[c] = @ \cup {r.Provides}], r)
             IN  IF b.err # NoErr THEN b
                 ELSE Res([b.m EXCEPT !.stack[c] = @ \ {r.Provides}], b.err, b.val)
  IN  resolved(resolve(c, IF IsPtrToInterface(t) THEN Elem(t) ELSE t, m.ord))

\* SafeInjector.getReflected
getReflected(m, c, t) ==
  LET \* the deferred delete(s.stack, binding.Provides), b being what Build returned
      deferred(r, b) ==
        IF Dead(b.err) THEN b
        ELSE Res([b.m EXCEPT !.stack[c] = @ \ {r.Provides}], b.err, b.val)
      resolved(r) ==
        IF r.err # NoErr THEN Res(m, r.err, Nil)
        ELSE IF r.Provides \in m.stack[c] THEN Res(m, Err("recursive"), Nil)
        ELSE deferred(r, buildRef([m EXCEPT !.stack[c] = @ \cup {r.Provides}], r))
  IN  resolved(resolve(c, IF IsPtrToInterface(t) THEN Elem(t) ELSE t, m.ord))

\* ------------------------------------------------------------------ binding

\* The part of the state Bind, BindTo, Install and SafeNew write, with the error
\* the call returns.
Store(pa, bi, bo, st, mo, h, err) ==
  [parent |-> pa, bindings |-> bi, bindingOrder |-> bo, stack |-> st, modules |-> mo,
   heap |-> h, err |-> err]
Now == Store(parent, bindings, bindingOrder, stack, modules, heap, NoErr)

\* A round of the loop of Bind without the test for an existing binding.
bindThingUnchecked(S, c, v) ==
  LET built(b) ==
        IF b.err # NoErr THEN [S EXCEPT !.err = b.err]
        ELSE [S EXCEPT !.heap = b.h, !.bindings[c][b.h[b.id].Provides] = b.id,
                       !.bindingOrder[c] = Append(@, b.h[b.id].Provides)]
  IN  built(annotationBuild(Annotate(v), v, c, S.heap, S.bindings[c]))

\* A round of the loop of Bind, were it to look for an existing binding in the
\* table of the parent too.
bindThingSeesParent(S, c, v) ==
  LET annotation == Annotate(v)
      built(b, t) ==
        IF b.err # NoErr THEN [S EXCEPT !.err = b.err]
        ELSE IF /\ \/ S.bindings[c][t] # 0
                   \/ S.parent[c] # 0 /\ S.bindings[S.parent[c]][t] # 0
                /\ ~(Is(annotation, "Sequence") \/ Is(annotation, "Mapping"))
          THEN [S EXCEPT !.err = Err("duplicate")]
        ELSE [S EXCEPT !.heap = b.h, !.bindings[c][t] = b.id, !.bindingOrder[c] = Append(@, t)]
      annotated(b) == built(b, IF b.err # NoErr THEN "none" ELSE b.h[b.id].Provides)
  IN  annotated(annotationBuild(annotation, v, c, S.heap, S.bindings[c]))

\* One round of the loop of SafeInjector.Bind, for the thing v.
bindThing(S, c, v) ==
  LET annotation == Annotate(v)
      built(b, t) ==
        IF b.err # NoErr THEN [S EXCEPT !.err = b.err]
        ELSE IF S.bindings[c][t] # 0 /\ ~(Is(annotation, "Sequence") \/ Is(annotation, "Mapping"))
          THEN [S EXCEPT !.err = Err("duplicate")]
        ELSE [S EXCEPT !.heap = b.h, !.bindings[c][t] = b.id, !.bindingOrder[c] = Append(@, t)]
      annotated(b) == built(b, IF b.err # NoErr THEN "none" ELSE b.h[b.id].Provides)
  IN  annotated(annotationBuild(annotation, v, c, S.heap, S.bindings[c]))

\* Bind, were a child to register in the table of its parent.
RECURSIVE bindIntoParent(_, _, _, _)
bindIntoParent(S, c, things, i) ==
  LET bound(S1) == IF S1.err # NoErr THEN S1 ELSE bindIntoParent(S1, c, things, i + 1)
  IN  IF i > Len(things) THEN S
      ELSE bound(bindThing(S, IF S.parent[c] # 0 THEN S.parent[c] ELSE c, things[i]))

\* Bind, were it to undo what it bound when a later thing fails.
RECURSIVE bindAtomic(_, _, _, _)
bindAtomic(S, c, things, i) ==
  LET bound(S1) == IF S1.err # NoErr THEN S1 ELSE bindAtomic(S1, c, things, i + 1)
      undone(R) == IF R.err # NoErr THEN [S EXCEPT !.err = R.err] ELSE R
  IN  IF i > Len(things) THEN S
      ELSE undone(bound(bindThing(S, c, things[i])))

\* SafeInjector.Bind(things...): the first error ends the loop.
RECURSIVE bind(_, _, _, _)
bind(S, c, things, i) ==
  LET bound(S1) == IF S1.err # NoErr THEN S1 ELSE bind(S1, c, things, i + 1)
  IN  IF i > Len(things) THEN S
      ELSE bound(bindThing(S, c, things[i]))

\* SafeInjector.BindTo(as, impl), as given by its type.
bindTo(S, c, as, impl) ==
  LET ift == IF IsPtrToInterface(as) THEN Elem(as) ELSE as
      \* the Binding whose Build converts what binding builds
      conv(binding, id) ==
        Binding("convert", binding.Provides, binding.Requires, Nil, "none", id, 0, ift, c)
      built(b, binding) ==
        IF b.err # NoErr THEN [S EXCEPT !.err = b.err]
        ELSE IF S.bindings[c][as] # 0 THEN [S EXCEPT !.err = Err("duplicate")]
        ELSE IF IsPtrToInterface(as)
          THEN (IF ~Implements(binding.Provides, ift) THEN [S EXCEPT !.err = Err("mismatch")]
                ELSE [S EXCEPT !.heap = b.h, !.bindings[c][ift] = b.id,
                               !.bindingOrder[c] = Append(@, ift)])
        ELSE IF ConvertibleTo(binding.Provides, ift)
          THEN [S EXCEPT !.heap = Append(b.h, conv(binding, b.id)),
                         !.bindings[c][ift] = Len(b.h) + 1,
                         !.bindingOrder[c] = Append(@, ift)]
        ELSE [S EXCEPT !.err = Err("convert")]
      annotated(b) == built(b, IF b.err # NoErr THEN Binding("none", "none", <<>>, Nil, "none", 0, 0, "none", c)
                               ELSE b.h[b.id])
  IN  annotated(annotationBuild(Annotate(impl), impl, c, S.heap, S.bindings[c]))

\* ------------------------------------------------------------------ modules

\* The module types of the run, the methods of each in reflect's (sorted)
\* order, a method name being its words, and the function a method is.
ModuleTypes == {"A", "B", "Param", "ConfA"}
NoModule == <<>>
Methods(mt) ==
  CASE mt = "A" -> << <<"Provide", "Int">> >>
    [] mt = "B" -> << <<"Provide", "String">> >>
    [] mt = "Param" -> << <<"Provide", "Int">> >>
    [] OTHER -> <<>>
MethodFunc(mt, j) ==
  CASE mt = "A" -> "A.ProvideInt"
    [] mt = "Param" -> "Param.ProvideInt"
    [] OTHER -> "B.ProvideString"
\* testConfigurableModuleA is a Module: its Configure binds an int literal.
IsModule(mt) == mt = "ConfA"
\* The fields of a module value: testModuleA and testModuleParam have param,
\* testModuleB and testConfigurableModuleA have none.
ModuleValues(mt) == IF mt \in {"A", "Param"} THEN {<<0>>, <<1>>, <<2>>} ELSE {<<0>>}
Zero == <<0>>
IsStruct(mt) == TRUE
Contains(name, word) == \E i \in 1 .. Len(name) : name[i] = word

\* The annotation Install binds for method j of a module of type mt.
methodProvider(mt, j) ==
  LET name == Methods(mt)[j]
      provider == Provider(Func(MethodFunc(mt, j)))
  IN  IF Contains(name, "Mapping") THEN Mapping(provider)
      ELSE IF Contains(name, "Sequence") THEN Sequence(provider)
      ELSE IF ~Contains(name, "Multi") THEN Singleton(provider)
      ELSE provider

\* handleDuplicate, were it to take the incoming module whatever the two hold.
handleDuplicateOverwrite(existing, incoming) == [err |-> NoErr, existing |-> incoming]

\* SafeInjector.handleDuplicate: what it returns, and the existing module after it.
handleDuplicate(existing, incoming) ==
  IF incoming = existing THEN [err |-> NoErr, existing |-> existing]
  ELSE IF incoming = Zero THEN [err |-> NoErr, existing |-> existing]
  ELSE IF existing = Zero THEN [err |-> NoErr, existing |-> incoming]
  ELSE [err |-> Err("unequal"), existing |-> existing]

\* The loop over the methods of a module, from method j on.
RECURSIVE bindMethods(_, _, _, _)
bindMethods(S, c, mt, j) ==
  LET bound(S1) == IF S1.err # NoErr THEN S1 ELSE bindMethods(S1, c, mt, j + 1)
  IN  IF j > Len(Methods(mt)) THEN S
      ELSE IF Methods(mt)[j][1] # "Provide" THEN bindMethods(S, c, mt, j + 1)
      ELSE bound(bind(S, c, <<methodProvider(mt, j)>>, 1))

\* SafeInjector.Install(modules...), a module being <<its type, its value>>.
\* A duplicate ends the call with what handleDuplicate returns.
RECURSIVE install(_, _, _, _)
install(S, c, mods, i) ==
  LET duplicate(d) == [S EXCEPT !.modules[c][mods[i][1]] = d.existing, !.err = d.err]
      bound(S2) == IF S2.err # NoErr THEN S2 ELSE install(S2, c, mods, i + 1)
      \* s.modules[module.Type()] = module, then the methods
      recorded(S1) ==
        IF ~IsStruct(mods[i][1]) THEN [S1 EXCEPT !.err = Err("notstruct")]
        ELSE bound(bindMethods(S1, c, mods[i][1], 1))
      \* module.Configure(unsafe): the panic of its Bind is recovered and returned
      configured(S0) ==
        IF S0.err # NoErr THEN S0
        ELSE recorded([S0 EXCEPT !.modules[c][mods[i][1]] = mods[i][2]])
  IN  IF i > Len(mods) THEN S
      ELSE IF S.modules[c][mods[i][1]] # NoModule
        THEN duplicate(handleDuplicate(S.modules[c][mods[i][1]], mods[i][2]))
      ELSE configured(IF IsModule(mods[i][1]) THEN bind(S, c, <<Value("int", <<Atom("int", 0, 1, <<>>)>>)>>, 1)
                      ELSE S)

\* --------------------------------------------------------------- containers

NoBindings == [t \in Types |-> 0]
NoModules == [mt \in ModuleTypes |-> NoModule]

\* SafeNew, for the container c with parent p (Child sets it): the container
\* binds itself, and itself as the SafeBinder.
SafeNew(S, c, p) ==
  LET S0 == [S EXCEPT !.parent = [d \in DOMAIN S.parent \cup {c} |-> IF d = c THEN p ELSE S.parent[d]],
                      !.bindings = [d \in DOMAIN S.parent \cup {c} |-> IF d = c THEN NoBindings ELSE S.bindings[d]],
                      !.bindingOrder = [d \in DOMAIN S.parent \cup {c} |-> IF d = c THEN <<>> ELSE S.bindingOrder[d]],
                      !.stack = [d \in DOMAIN S.parent \cup {c} |-> IF d = c THEN {} ELSE S.stack[d]],
                      !.modules = [d \in DOMAIN S.parent \cup {c} |-> IF d = c THEN NoModules ELSE S.modules[d]]]
      S1 == bind(S0, c, <<Value("*SafeInjector", Self(c))>>, 1)
  IN  bindTo(S1, c, "*SafeBinder", Value("*SafeInjector", Self(c)))

Empty == Store(<<>>, <<>>, <<>>, <<>>, <<>>, <<>>, NoErr)

\* cells and calls have one entry per binding of the heap.
Grown(seq, h, v) == [i \in 1 .. Len(h) |-> IF i <= Len(seq) THEN seq[i] ELSE v]

\* What the caller of the last operation saw: the operation, its container, the
\* type asked for (Get), bound as (BindTo) or provided by the thing bound (Bind,
\* "none" when its annotation does not build), whether that thing is or contains
\* a Sequence or a Mapping, the function called, how often it ran, and what
\* came back.
NoLast == [op |-> "none", c |-> 0, t |-> "none", f |-> "none", merge |-> FALSE,
           ran |-> 0, err |-> NoErr, val |-> Nil, rets |-> <<>>]

\* The goroutines, and one that is not inside Get and has no result.
Threads == 1 .. NumThreads
Idle == [frames |-> <<>>, t |-> "none", done |-> FALSE, err |-> NoErr, val |-> Nil]

\* The zero Config of a new Injector.
NoConfig == [ImplicitSequences |-> FALSE, ImplicitMappings |-> FALSE]

Init ==
  LET constructed(S) ==
        /\ parent = S.parent
        /\ bindings = S.bindings
        /\ bindingOrder = S.bindingOrder
        /\ stack = S.stack
        /\ modules = S.modules
        /\ heap = S.heap
        /\ cells = Grown(<<>>, S.heap, NoCell)
        /\ calls = Grown(<<>>, S.heap, 0)
        /\ config = [c \in DOMAIN S.parent |-> NoConfig]
        /\ threads = [th \in Threads |-> Idle]
        /\ last = NoLast
  IN  constructed(SafeNew(Empty, 1, 0))

\* A goroutine blocked forever: the program makes no further step.
Hung == Dead(last.err)

\* The writes of a binding operation that ended in the store S.
Registered(bo) ==
  LET RECURSIVE Sum(_)
      Sum(C) == IF C = {} THEN 0
                ELSE LET c == CHOOSE d \in C : TRUE IN Len(bo[c]) - 2 + Sum(C \ {c})
  IN  Sum(DOMAIN bo)

Stored(S) ==
  /\ Registered(S.bindingOrder) <= MaxBinds
  /\ parent' = S.parent
  /\ bindings' = S.bindings
  /\ bindingOrder' = S.bindingOrder
  /\ stack' = S.stack
  /\ modules' = S.modules
  /\ heap' = S.heap
  /\ cells' = Grown(cells, S.heap, NoCell)
  /\ calls' = Grown(calls, S.heap, 0)
  /\ config' = [c \in DOMAIN S.parent |-> IF c \in DOMAIN config THEN config[c] ELSE NoConfig]
  /\ threads' = threads

\* ------------------------------------------------------------------ actions

\* The type the thing x provides, if its annotation builds on container c.
providesOf(c, x) ==
  LET b == annotationBuild(Annotate(x), x, c, heap, bindings[c])
  IN  IF b.err # NoErr THEN "none" ELSE b.h[b.id].Provides

\* The thing x is, or contains, a Sequence or a Mapping.
Mergeable(x) == \E i \in 1 .. Len(Annotate(x)) : Annotate(x)[i] \in {"Sequence", "Mapping"}

\* s.Bind(things...)
Bind(c, things) ==
  LET returned(S) ==
        /\ Stored(S)
        /\ last' = [NoLast EXCEPT !.op = "Bind", !.c = c, !.t = providesOf(c, things[Len(things)]),
                                  !.merge = Mergeable(things[Len(things)]), !.err = S.err]
  IN  ~Hung /\ returned(bind(Now, c, things, 1))

\* s.BindTo(as, impl)
BindTo(c, as, impl) ==
  LET returned(S) ==
        /\ Stored(S)
        /\ last' = [NoLast EXCEPT !.op = "BindTo", !.c = c, !.t = as, !.err = S.err]
  IN  ~Hung /\ returned(bindTo(Now, c, as, impl))

\* s.Install(modules...)
Install(c, mods) ==
  LET returned(S) ==
        /\ Stored(S)
        /\ last' = [NoLast EXCEPT !.op = "Install", !.c = c, !.err = S.err]
  IN  ~Hung /\ returned(install(Now, c, mods, 1))

\* s.Child()
Child(c) ==
  /\ ~Hung
  /\ Cardinality(Containers) < MaxContainers
  /\ Stored(SafeNew(Now, Cardinality(Containers) + 1, c))
  /\ last' = [NoLast EXCEPT !.op = "Child", !.c = c]

\* The writes of a Get or a Call that ended as r.
Got(r) ==
  /\ \A i \in 1 .. Len(heap) : r.m.calls[i] <= MaxCalls
  /\ stack' = r.m.stack
  /\ cells' = r.m.cells
  /\ calls' = r.m.calls
  /\ UNCHANGED <<parent, bindings, bindingOrder, modules, heap, config, threads>>

\* s.Get(t), the environment choosing fail and ord
Get(c, t, fail, ord) ==
  LET returned(r) ==
        /\ Got(r)
        /\ last' = [NoLast EXCEPT !.op = "Get", !.c = c, !.t = t, !.err = r.err, !.val = r.val]
  IN  ~Hung /\ returned(getReflected(Mem(cells, calls, stack, fail, ord), c, t))

\* s.Call(f)
CallFunc(c, f, fail, ord) ==
  LET returned(r) ==
        /\ Got(r)
        /\ last' = [NoLast EXCEPT !.op = "Call", !.c = c, !.f = f, !.ran = r.m.ran,
                                  !.err = r.err,
                                  !.rets = IF r.err = NoErr THEN r.val ELSE <<>>]
  IN  ~Hung /\ returned(Call(Mem(cells, calls, stack, fail, ord), c, f, 0))

\* The error of SafeInjector.Validate(f): the bindings of the table first, the
\* arguments of f next (numbered from 0 in its message).
validate(c, f) ==
  LET ins == FuncSig(f).ins
      bad == {j \in 1 .. Len(ins) : resolve(c, ins[j], 0).err # NoErr}
  IN  IF \E t \in Types : /\ bindings[c][t] # 0
                          /\ \E i \in 1 .. Len(heap[bindings[c][t]].Requires) :
                               resolve(c, heap[bindings[c][t]].Requires[i], 0).err # NoErr
        THEN <<Msg("unsatisfied", 0, NoSig)>> \o Err("unbound")
      ELSE IF bad # {}
        THEN LET j == CHOOSE j \in bad : \A k \in bad : j <= k
             IN  <<Msg("satisfy", j - 1, FuncSig(f))>> \o resolve(c, ins[j], 0).err
      ELSE NoErr

\* Validate, were it to call f as Call does.
ValidateCalling(c, f) ==
  LET returned(r) ==
        /\ Got(r)
        /\ last' = [NoLast EXCEPT !.op = "Validate", !.c = c, !.f = f, !.err = r.err]
  IN  ~Hung /\ returned(Call(Mem(cells, calls, stack, {}, 0), c, f, 0))

\* s.Validate(f)
Validate(c, f) ==
  /\ ~Hung
  /\ last' = [NoLast EXCEPT !.op = "Validate", !.c = c, !.f = f, !.err = validate(c, f)]
  /\ UNCHANGED <<parent, bindings, bindingOrder, stack, modules, heap, cells, calls, config,
                 threads>>

\* ------------------------------------------------------------ environment

\* The functions bound that may return an error, and the choices of the scan.
Fallible(f) == LET outs == FuncSig(f).outs IN Len(outs) > 0 /\ outs[Len(outs)] = "error"
FailSets(f) ==
  SUBSET ({heap[i].fn : i \in {j \in 1 .. Len(heap) : heap[j].kind = "provider"
                                                       /\ Fallible(heap[j].fn)}}
          \cup (IF Fallible(f) THEN {f} ELSE {}))
Ords ==
  IF \E c \in Containers, i \in InterfaceTypes : Cardinality(scanKeys(c, i)) > 1
    THEN 0 .. 1 ELSE {0}

\* The literal values of a type.
Lit(t, n) == Value(t, <<Atom(t, 0, n, <<>>)>>)
Lits(t) == {Lit(t, n) : n \in 1 .. NumLit}
Slice(t, n) == Value(t, <<Atom(Elem(t), 0, n, <<>>)>>)
Slices(t) == {Slice(t, n) : n \in 1 .. NumLit}
Maps(t) == {Value(t, MapOf(k, Atom(Elem(t), 0, n, <<>>))) : k \in Keys, n \in 1 .. NumLit}

\* Get and Call on any container, the environment choosing.
Gets(types) ==
  \E c \in Containers, t \in types : \E fail \in FailSets("none"), ord \in Ords :
    Get(c, t, fail, ord)
Calls(targets) ==
  \E c \in Containers, f \in targets : \E fail \in FailSets(f), ord \in Ords :
    CallFunc(c, f, fail, ord)

\* --------------------------------------------- values, literals and functions

\* A container that is bound values and providers of several types.
Things ==
  Lits("int") \cup {Lit("*Stringer", 1), Literal(Func("fInt")), Func("fStrOfInt"), Lit("NQS", 1)}

Next ==
  \/ \E c \in Containers, x \in Things : Bind(c, <<x>>)
  \/ \E c \in Containers : BindTo(c, "*Stringer", Lit("NQA", 1))
  \/ Gets({"int", "string", "*Stringer", "func", "NQS"})

Spec == Init /\ [][Next]_vars

\* ----------------------------------------------------------------- claims

\* The table of container c holds under t a literal bound with Bind: a
\* literalAnnotation's binding stored under the type of its own value.
LiteralBound(c, t) ==
  /\ bindings[c][t] # 0
  /\ heap[bindings[c][t]].kind = "literal"
  /\ heap[bindings[c][t]].Provides = t

\* The entry of a literal stays in place, unless a Sequence or a Mapping of the
\* very same type is bound over it.
LiteralStays ==
  \A c \in Containers, t \in Types :
    LiteralBound(c, t) /\ ~(last'.op = "Bind" /\ last'.c = c /\ last'.t = t /\ last'.merge)
      => bindings'[c][t] = bindings[c][t]

\* C1 as claimed: a Get of the type of a literal v bound with Bind returns
\* exactly v, for every value v, whatever else was bound since and however many
\* Gets were made.
C1_RoundTripAnyValue ==
  last.op = "Get" /\ LiteralBound(last.c, last.t)
    => last.err = NoErr /\ last.val = heap[bindings[last.c][last.t]].val

\* C1, amended: a Get of the type of a literal v bound with Bind returns exactly
\* v whenever that type is not a pointer to an interface (getReflected takes such
\* a type for the interface it points to), and no operation on other types
\* removes or replaces the literal's entry.
C1_RoundTrip ==
  /\ [](last.op = "Get" /\ LiteralBound(last.c, last.t) /\ ~IsPtrToInterface(last.t)
          => last.err = NoErr /\ last.val = heap[bindings[last.c][last.t]].val)
  /\ [][LiteralStays]_vars

\* A literal was bound, a binding of another type was registered after it, and a
\* Get of the literal's type has returned it.
C1_Witness ==
  /\ last.op = "Get" /\ LiteralBound(last.c, last.t) /\ ~IsPtrToInterface(last.t)
  /\ \E u \in Types \ {last.t} : bindings[last.c][u] > bindings[last.c][last.t]
  /\ last.err = NoErr /\ last.val = heap[bindings[last.c][last.t]].val

\* ------------------------------------------------ providers and singletons

\* A container that is bound providers, bare and as Singletons, and installs
\* the modules A and B, whose providers require each other's type.
ThingsProviders ==
  {Lit("int", 1), Func("fIntE"), Singleton(Func("fIntE")),
   Func("fStrOfInt"), Singleton(Func("fStrOfInt"))}

NextProviders ==
  \/ \E c \in Containers, x \in ThingsProviders : Bind(c, <<x>>)
  \/ \E c \in Containers, mt \in {"A", "B"} : Install(c, << <<mt, Zero>> >>)
  \/ Gets({"int", "string"})

SpecProviders == Init /\ [][NextProviders]_vars

\* The binding id is a Singleton around a provider function.
SingletonOf(id) == heap[id].kind = "singleton" /\ heap[heap[id].inner].kind = "provider"

\* C2: once a Singleton-wrapped provider has built a value, its function has
\* been invoked exactly once, stays so whatever is done next, and every Get of
\* its type, the first included, returns that one value.
C2_SingletonMemoized ==
  /\ [](\A id \in 1 .. Len(heap) :
          SingletonOf(id) /\ cells[id].isCached /\ cells[id].cached # Nil
            => calls[heap[id].inner] = 1)
  /\ [](last.op = "Get" /\ bindings[last.c][last.t] # 0
          /\ SingletonOf(bindings[last.c][last.t])
          /\ cells[bindings[last.c][last.t]].cached # Nil
          => last.err = NoErr /\ last.val = cells[bindings[last.c][last.t]].cached)
  /\ [][\A id \in 1 .. Len(heap) :
          SingletonOf(id) /\ cells[id].isCached
            => cells'[id] = cells[id] /\ calls'[heap[id].inner] = calls[heap[id].inner]]_vars

\* A Singleton's value has been asked for by a Get and then by each of two
\* builds of a provider that requires it, and its function has run once.
C2_Witness ==
  \E id, j \in 1 .. Len(heap) :
    /\ SingletonOf(id) /\ cells[id].isCached /\ cells[id].cached # Nil
    /\ calls[heap[id].inner] = 1
    /\ heap[j].kind = "provider" /\ calls[j] = 2
    /\ last.op = "Get" /\ last.err = NoErr
    /\ last.val = <<Atom("string", j, 2, <<heap[id].inner, 1>>)>>

\* The table of container c holds under t a provider bound without Singleton.
ProviderBound(c, t) ==
  /\ bindings[c][t] # 0
  /\ heap[bindings[c][t]].kind = "provider"

\* The function of the provider was called by the Get that ended with err: the
\* Get returned a value, or the error of the function itself.
Invoked(err) == err = NoErr \/ err = Err("failed")

\* C3 as claimed: each Get of the type of a provider bound without Singleton
\* invokes the provider exactly once.
C3_OncePerGet ==
  [][\A c \in Containers, t \in Types :
       last'.op = "Get" /\ last'.c = c /\ last'.t = t /\ ProviderBound(c, t)
         => calls'[bindings[c][t]] = calls[bindings[c][t]] + 1]_vars

\* C3, amended: a Get of the type of a provider bound without Singleton that
\* gets as far as calling it (its arguments were injected) invokes it exactly once
\* and returns what that invocation made, never the value of an earlier Get;
\* a Get that fails on one of the arguments does not invoke it.
C3_OncePerBuiltGet ==
  [][\A c \in Containers, t \in Types :
       last'.op = "Get" /\ last'.c = c /\ last'.t = t /\ ProviderBound(c, t)
         => IF Invoked(last'.err)
              THEN /\ calls'[bindings[c][t]] = calls[bindings[c][t]] + 1
                   /\ last'.err = NoErr
                        => /\ last'.val[1].src = bindings[c][t]
                           /\ last'.val[1].n = calls'[bindings[c][t]]
              ELSE calls'[bindings[c][t]] = calls[bindings[c][t]]]_vars

\* A second Get of a provider's type has returned the value of its second
\* invocation.
C3_Witness ==
  /\ last.op = "Get" /\ ProviderBound(last.c, last.t) /\ last.err = NoErr
  /\ calls[bindings[last.c][last.t]] = 2
  /\ last.val[1].src = bindings[last.c][last.t] /\ last.val[1].n = 2

\* The modules A and B are installed on container c: int is provided by the
\* Singleton of A.ProvideInt(string), string by that of B.ProvideString(int).
Cyclic(c) ==
  /\ bindings[c]["int"] # 0 /\ SingletonOf(bindings[c]["int"])
  /\ heap[heap[bindings[c]["int"]].inner].fn = "A.ProvideInt"
  /\ bindings[c]["string"] # 0 /\ SingletonOf(bindings[c]["string"])
  /\ heap[heap[bindings[c]["string"]].inner].fn = "B.ProvideString"

\* C4: with A and B installed, every Get of int or of string, the first and
\* every later one, fails with the recursive-binding error and returns no value.
C4_CycleAlwaysFails ==
  last.op = "Get" /\ last.t \in {"int", "string"} /\ Cyclic(last.c)
    => Cause(last.err) = "recursive" /\ last.val = Nil

\* ---------------------------------------------------- sequences and slices

\* A container that is bound slices with Sequence (literal slices, a provider
\* and a Singleton provider of []int that may return an error, a slice of
\* notQuiteStringer) and a plain slice of notQuiteAnotherStringer.
ThingsSequences ==
  {Sequence(x) : x \in Slices("[]int")}
    \cup {Sequence(Func("fInts")), Sequence(Singleton(Func("fIntsE"))),
          Sequence(Slice("[]NQS", 1)), Slice("[]NQA", 1)}

NextSequences ==
  \/ \E c \in Containers, x \in ThingsSequences : Bind(c, <<x>>)
  \/ Gets({"[]int", "[]Stringer"})

SpecSequences == Init /\ [][NextSequences]_vars

RECURSIVE Concat(_)
Concat(ss) == IF ss = <<>> THEN <<>> ELSE Head(ss) \o Concat(Tail(ss))

\* The Sequence bindings of type t registered on container c, in the order of
\* their registration.
SequencesOf(c, t) ==
  SelectSeq([i \in 1 .. Len(heap) |-> i],
            LAMBDA i : heap[i].kind = "sequence" /\ heap[i].on = c /\ heap[i].Provides = t)

\* What the thing wrapped by the Sequence or Mapping binding i contributes: the
\* literal, what the latest invocation of the provider returned, or what the
\* Singleton holds.
Contribution(i) ==
  CASE heap[heap[i].inner].kind = "literal" -> heap[heap[i].inner].val
    [] heap[heap[i].inner].kind = "provider" ->
         FnOut(heap[heap[i].inner].fn, heap[i].inner, calls[heap[i].inner], <<>>)
    [] OTHER -> cells[heap[i].inner].cached

\* Nothing but Sequence annotations was bound for t on c.
OnlySequences(c, t) ==
  /\ SequencesOf(c, t) # <<>>
  /\ heap[SequencesOf(c, t)[1]].prev = 0
  /\ bindings[c][t] = SequencesOf(c, t)[Len(SequencesOf(c, t))]

\* C5: what a Get of a slice type bound by k Sequence annotations returns is
\* the contributions of the k bindings, each once, in the order they were
\* registered; the Get returns no value only when a provider of the chain
\* returned an error, now or when its Singleton was first built.
C5_SequenceOrder ==
  \A t \in SliceTypes :
    last.op = "Get" /\ last.t = t /\ OnlySequences(last.c, t)
      => IF last.err = NoErr
           THEN last.val = Concat([k \in 1 .. Len(SequencesOf(last.c, t)) |->
                                     Contribution(SequencesOf(last.c, t)[k])])
           ELSE \/ last.err = Err("failed")
                \/ /\ Panicked(last.err)
                   /\ \E i \in 1 .. Len(heap) : cells[i].isCached /\ cells[i].cached = Nil

\* Three Sequence annotations of []int, a literal, a provider and a Singleton
\* among them, and a Get of []int that returned three elements.
C5_Witness ==
  /\ last.op = "Get" /\ last.t = "[]int" /\ OnlySequences(last.c, "[]int")
  /\ last.err = NoErr
  /\ Len(SequencesOf(last.c, "[]int")) = 3
  /\ \E i, j, k \in 1 .. Len(heap) :
       /\ heap[i].kind = "literal" /\ heap[j].kind = "provider" /\ heap[k].kind = "singleton"
       /\ cells[k].isCached /\ cells[k].cached # Nil
       /\ last.val = heap[i].val \o <<Atom("int", j, calls[j], <<>>)>> \o cells[k].cached

\* The types of a registration order, each at the place of its first registration.
RECURSIVE Entries(_)
Entries(order) ==
  IF order = <<>> THEN <<>>
  ELSE LET rest == Entries(SelectSeq(Tail(order), LAMBDA bt : bt # Head(order)))
       IN  <<Head(order)>> \o rest

\* The table entries of container c that provide a slice whose element type
\* implements the interface i, in registration order.
SliceEntries(c, i) ==
  SelectSeq(Entries(bindingOrder[c]),
            LAMBDA bt : Kind(bt) = "slice" /\ Implements(Elem(bt), i))

\* The slice the table entry of type bt builds: a literal slice, or the
\* contributions of the Sequence annotations bound for bt.
SliceOf(c, bt) ==
  IF heap[bindings[c][bt]].kind = "literal" THEN heap[bindings[c][bt]].val
  ELSE Concat([k \in 1 .. Len(SequencesOf(c, bt)) |-> Contribution(SequencesOf(c, bt)[k])])

\* C10: a Get of []Stringer, nothing being bound under []Stringer itself,
\* returns the slices built by the table entries whose element type implements
\* Stringer, one after the other in registration order, and nothing else.
C10_SliceOfInterface ==
  last.op = "Get" /\ last.t = "[]Stringer" /\ bindings[last.c]["[]Stringer"] = 0
    => /\ last.err = NoErr
       /\ last.val = Concat([k \in 1 .. Len(SliceEntries(last.c, "Stringer")) |->
                               SliceOf(last.c, SliceEntries(last.c, "Stringer")[k])])

\* ------------------------------------------------------- mappings and maps

\* A container that is bound maps with Mapping: literal maps of one key each, a
\* provider and a Singleton provider that may return an error.
ThingsMappings ==
  {Mapping(x) : x \in Maps("map[string]int")}
    \cup {Mapping(Func("fMap")), Mapping(Singleton(Func("fMapE")))}

NextMappings ==
  \/ \E c \in Containers, x \in ThingsMappings : Bind(c, <<x>>)
  \/ Gets({"map[string]int"})

SpecMappings == Init /\ [][NextMappings]_vars

\* The Mapping bindings of type t registered on container c, in the order of
\* their registration.
MappingsOf(c, t) ==
  SelectSeq([i \in 1 .. Len(heap) |-> i],
            LAMBDA i : heap[i].kind = "mapping" /\ heap[i].on = c /\ heap[i].Provides = t)

\* Nothing but Mapping annotations was bound for t on c.
OnlyMappings(c, t) ==
  /\ MappingsOf(c, t) # <<>>
  /\ heap[MappingsOf(c, t)[1]].prev = 0
  /\ bindings[c][t] = MappingsOf(c, t)[Len(MappingsOf(c, t))]

\* The places, in the registration order ms, of the bindings that contribute key k.
Contributors(ms, k) == {j \in 1 .. Len(ms) : Contribution(ms[j])[k] # Absent}

\* The value of key k in the merged map: that of the latest-registered binding
\* that contributes k, and no value when none does.
Merged(ms, k) ==
  IF Contributors(ms, k) = {} THEN Absent
  ELSE Contribution(ms[CHOOSE j \in Contributors(ms, k) :
                          \A j2 \in Contributors(ms, k) : j2 <= j])[k]

\* C6: what a Get of a map type bound by several Mapping annotations returns
\* is a map with every key any of them contributes, a key contributed more than
\* once having the value of the latest-registered binding; the Get returns no
\* value only when a provider of the chain returned an error, now or when its
\* Singleton was first built.
C6_MappingOverwrite ==
  \A t \in MapTypes :
    last.op = "Get" /\ last.t = t /\ OnlyMappings(last.c, t)
      => IF last.err = NoErr
           THEN last.val = [k \in Keys |-> Merged(MappingsOf(last.c, t), k)]
           ELSE \/ last.err = Err("failed")
                \/ /\ Panicked(last.err)
                   /\ \E i \in 1 .. Len(heap) : cells[i].isCached /\ cells[i].cached = Nil

\* Three Mapping annotations, two of them literals with different values for
\* one key and one contributing another key, and a Get that returned the later
\* literal's value for the first key and the other binding's for the second.
C6_Witness ==
  /\ last.op = "Get" /\ last.t = "map[string]int" /\ OnlyMappings(last.c, "map[string]int")
  /\ last.err = NoErr
  /\ Len(MappingsOf(last.c, "map[string]int")) = 3
  /\ \E k1, k2 \in Keys, a, b \in 1 .. 3 :
       /\ k1 # k2 /\ a < b
       /\ Contribution(MappingsOf(last.c, "map[string]int")[a])[k1] # Absent
       /\ Contribution(MappingsOf(last.c, "map[string]int")[b])[k1] # Absent
       /\ Contribution(MappingsOf(last.c, "map[string]int")[a])[k1]
            # Contribution(MappingsOf(last.c, "map[string]int")[b])[k1]
       /\ last.val[k1] = Contribution(MappingsOf(last.c, "map[string]int")[b])[k1]
       /\ last.val[k2] # Absent

\* ------------------------------------------------------ duplicate bindings

\* A container that is bound, more than once, things that provide int, []int
\* and map[string]int, with and without Sequence and Mapping around or inside
\* them, and implementations under Stringer and under concrete types.
ThingsDuplicates ==
  Lits("int")
    \cup {Func("fInt"), Singleton(Func("fInt")),
          Slice("[]int", 1), Sequence(Slice("[]int", 1)), Sequence(Func("fInts")),
          Singleton(Sequence(Func("fInts"))),
          Value("map[string]int", MapOf(1, Atom("int", 0, 1, <<>>))),
          Mapping(Func("fMap"))}

\* The targets and implementations of BindTo: each implements, or converts to,
\* its target.
ImplsDuplicates ==
  {<<"*Stringer", Lit("NQS", 1)>>, <<"*Stringer", Lit("NQA", 1)>>,
   <<"NQS", Lit("int", 1)>>, <<"NQS", Lit("NQS", 1)>>, <<"int", Lit("NQS", 1)>>}

NextDuplicates ==
  \/ \E c \in Containers, x \in ThingsDuplicates : Bind(c, <<x>>)
  \/ \E c \in Containers, ai \in ImplsDuplicates : BindTo(c, ai[1], ai[2])

SpecDuplicates == Init /\ [][NextDuplicates]_vars

\* C7: a Bind of a thing whose provides-type is already bound on the container
\* fails with the duplicate error and changes neither the table nor the
\* registration order nor any binding, unless the thing is or contains a
\* Sequence or a Mapping: then it does not fail as a duplicate.
C7_DuplicateBind ==
  [][\A c \in Containers, t \in Types :
       last'.op = "Bind" /\ last'.c = c /\ last'.t = t /\ bindings[c][t] # 0
         => IF last'.merge
              THEN Cause(last'.err) # "duplicate"
              ELSE /\ last'.err = Err("duplicate")
                   /\ UNCHANGED <<bindings, bindingOrder, heap>>]_vars

\* A Bind has just been refused as a duplicate, its type still bound as before,
\* on a container where a Sequence or a Mapping was bound over a binding of
\* its own type.
C7_Witness ==
  /\ last.op = "Bind" /\ last.err = Err("duplicate") /\ ~last.merge
  /\ bindings[last.c][last.t] # 0
  /\ \E i \in 1 .. Len(heap) :
       heap[i].kind \in {"sequence", "mapping"} /\ heap[i].on = last.c /\ heap[i].prev # 0

\* The key BindTo stores under: the interface a pointer to an interface names,
\* or the type itself.
KeyOf(as) == IF IsPtrToInterface(as) THEN Elem(as) ELSE as

\* C8: a BindTo whose key is already bound on the container fails with the
\* duplicate error, the key being an interface or a concrete type, and the
\* binding stored under the key stays.
C8_DuplicateBindTo ==
  [][\A c \in Containers :
       last'.op = "BindTo" /\ last'.c = c /\ bindings[c][KeyOf(last'.t)] # 0
         => /\ last'.err = Err("duplicate")
            /\ bindings'[c][KeyOf(last'.t)] = bindings[c][KeyOf(last'.t)]]_vars

\* --------------------------------------------------------------- interfaces

\* A container that is bound values and providers of types that implement
\* Stringer, an implementation stored under int by BindTo, and one stored under
\* Stringer itself; Stringer is asked for by Get and by Call.
ThingsInterfaces ==
  {Lit("NQS", 1), Lit("NQA", 1), Lit("int", 1), Func("fNQSOfInt"), Singleton(Func("fNQSOfInt"))}

ImplsInterfaces == {<<"int", Lit("NQS", 1)>>, <<"*Stringer", Lit("NQA", 1)>>}

NextInterfaces ==
  \/ \E c \in Containers, x \in ThingsInterfaces : Bind(c, <<x>>)
  \/ \E c \in Containers, ai \in ImplsInterfaces : BindTo(c, ai[1], ai[2])
  \/ Gets({"Stringer", "*Stringer"})
  \/ Calls({"useStringer"})

SpecInterfaces == Init /\ [][NextInterfaces]_vars

\* The types that implement the interface i and have an entry of their own in
\* the table of container c.
Implementers(c, i) == {k \in Types : bindings[c][k] # 0 /\ Implements(k, i)}

\* The step is a Get of Stringer, or a Call of a function whose parameter is a
\* Stringer, on container c.
AsksStringer(c) ==
  /\ last'.c = c
  /\ \/ last'.op = "Get" /\ KeyOf(last'.t) = "Stringer"
     \/ last'.op = "Call" /\ last'.f = "useStringer"

\* C9 as claimed: with a binding whose provided type implements Stringer and
\* none stored under Stringer, a Get of Stringer succeeds with a value of a type
\* that implements Stringer, and a Call with a Stringer parameter is injected.
C9_FallbackSucceeds ==
  \A c \in Containers :
    /\ last.c = c /\ bindings[c]["Stringer"] = 0
    /\ \E t \in Types : /\ bindings[c][t] # 0
                        /\ Implements(heap[bindings[c][t]].Provides, "Stringer")
    => /\ last.op = "Get" /\ KeyOf(last.t) = "Stringer"
            => /\ last.err = NoErr
               /\ Len(last.val) = 1 /\ Implements(last.val[1].dyn, "Stringer")
       /\ last.op = "Call" /\ last.f = "useStringer" => Invoked(last.err)

\* C9, amended: with an entry stored under a concrete type that implements
\* Stringer and none stored under Stringer, a Get of Stringer does exactly what
\* a Get of one such type does: it returns the value that entry's build returns
\* when it succeeds and its error when it fails; a Call injects its Stringer
\* parameter the same way.
C9_FallbackAsImplementer ==
  [][\A c \in Containers :
       AsksStringer(c) /\ bindings[c]["Stringer"] = 0 /\ Implementers(c, "Stringer") # {}
         => \E k \in Implementers(c, "Stringer") :
              LET same(r) ==
                    /\ cells' = r.m.cells /\ calls' = r.m.calls
                    /\ last'.op = "Get" => last'.err = r.err /\ last'.val = r.val
                    /\ last'.op = "Call" /\ r.err = NoErr /\ r.val # Nil => Invoked(last'.err)
                    /\ last'.op = "Call" /\ r.err = NoErr /\ r.val = Nil => Panicked(last'.err)
                    /\ last'.op = "Call" /\ r.err # NoErr => last'.err = Wrap(1, FuncSig("useStringer"), r.err)
              IN  same(getReflected(Mem(cells, calls, stack, {}, 0), c, k))]_vars

\* Two types implementing Stringer are bound, nothing is stored under Stringer,
\* and a Get of Stringer has returned the value of one of them.
C9_Witness ==
  /\ last.op = "Get" /\ last.t = "Stringer" /\ bindings[last.c]["Stringer"] = 0
  /\ Cardinality(Implementers(last.c, "Stringer")) = 2
  /\ last.err = NoErr /\ Implements(last.val[1].dyn, "Stringer")

\* ------------------------------------------------------- maps of interfaces

\* A container that is bound maps whose values implement Stringer (literals of
\* notQuiteStringer and of notQuiteAnotherStringer, a provider), a map of the
\* same values with int keys, and a map of int values.
MapLit(t, k, n) == Value(t, MapOf(k, Atom(Elem(t), 0, n, <<>>)))

ThingsMapsOfInterface ==
  {Mapping(MapLit("map[string]NQS", k, 1)) : k \in Keys}
    \cup {Mapping(MapLit("map[string]NQA", k, 1)) : k \in Keys}
    \cup {Mapping(Func("fNQSMap")), MapLit("map[int]NQS", 1, 2), MapLit("map[string]int", 1, 1)}

NextMapsOfInterface ==
  \/ \E c \in Containers, x \in ThingsMapsOfInterface : Bind(c, <<x>>)
  \/ Gets({"map[string]Stringer"})

SpecMapsOfInterface == Init /\ [][NextMapsOfInterface]_vars

\* The map the binding id builds in the current state: a literal map, what the
\* latest invocation of a provider returned, what a Singleton holds, or the keys
\* of a Mapping's own value over those of the binding it was bound over.
RECURSIVE MapBuilt(_)
MapBuilt(id) ==
  CASE heap[id].kind = "literal" -> heap[id].val
    [] heap[id].kind = "provider" -> FnOut(heap[id].fn, id, calls[id], <<>>)
    [] heap[id].kind = "singleton" -> cells[id].cached
    [] OTHER -> [k \in Keys |->
                   IF MapBuilt(heap[id].inner)[k] # Absent THEN MapBuilt(heap[id].inner)[k]
                   ELSE IF heap[id].prev # 0 THEN MapBuilt(heap[id].prev)[k]
                   ELSE Absent]

\* The table entries of container c that provide a map with key type kt and a
\* value type implementing the interface i.
MapEntries(c, kt, i) ==
  {bt \in MapTypes : bindings[c][bt] # 0 /\ Key(bt) = kt /\ Implements(Elem(bt), i)}

\* When the entry stored under bt on c was registered: the place of its type in
\* the registration order, the latest if a Mapping was bound over it.
RegisteredAt(c, bt) ==
  CHOOSE p \in 1 .. Len(bindingOrder[c]) :
    /\ bindingOrder[c][p] = bt
    /\ \A q \in 1 .. Len(bindingOrder[c]) : bindingOrder[c][q] = bt => q <= p

\* The value of key k in the overlay of the maps of the entries E of c: that of
\* the latest-registered entry whose map has k.
Overlaid(c, E, k) ==
  LET having == {bt \in E : MapBuilt(bindings[c][bt])[k] # Absent}
  IN  IF having = {} THEN Absent
      ELSE MapBuilt(bindings[c][CHOOSE bt \in having :
                                  \A b2 \in having : RegisteredAt(c, b2) <= RegisteredAt(c, bt)])[k]

\* C11: a Get of map[string]Stringer, nothing being bound under that type,
\* returns the overlay of the maps built by the table entries whose type is a
\* map with string keys and values implementing Stringer: each key has the value
\* of the latest-registered such entry that has it, and a map with another key
\* type contributes nothing.
C11_MapOfInterface ==
  last.op = "Get" /\ last.t = "map[string]Stringer" /\ bindings[last.c]["map[string]Stringer"] = 0
    => /\ last.err = NoErr
       /\ last.val = [k \in Keys |->
                        Overlaid(last.c, MapEntries(last.c, "string", "Stringer"), k)]

\* A map of notQuiteStringer, then one of notQuiteAnotherStringer with the same
\* key, then a map with int keys were bound, and the Get returned for that key
\* the value of the second.
C11_Witness ==
  /\ last.op = "Get" /\ last.t = "map[string]Stringer" /\ last.err = NoErr
  /\ bindings[last.c]["map[int]NQS"] # 0
  /\ bindingOrder[last.c][Len(bindingOrder[last.c])] = "map[int]NQS"
  /\ MapEntries(last.c, "string", "Stringer") = {"map[string]NQS", "map[string]NQA"}
  /\ RegisteredAt(last.c, "map[string]NQS") < RegisteredAt(last.c, "map[string]NQA")
  /\ MapBuilt(bindings[last.c]["map[string]NQS"])[1] # Absent
  /\ last.val[1] = Atom("NQA", 0, 1, <<>>)

\* ------------------------------------------------------- parents and children

\* A root container and children of it, each bound a value of int, a provider
\* of string that requires int, a notQuiteStringer and a Sequence of
\* notQuiteStringer; a child asks for what only its parent has.
ThingsFallbacks ==
  {Lit("int", 1), Func("fStrOfInt"), Lit("NQS", 1), Sequence(Slice("[]NQS", 1))}

NextFallbacks ==
  \/ \E c \in Containers, x \in ThingsFallbacks :
       Registered(bindingOrder) < MaxChildBinds /\ Bind(c, <<x>>)
  \/ \E c \in Containers : Child(c)
  \/ Gets({"int", "string", "Stringer", "[]Stringer"})

SpecFallbacks == Init /\ [][NextFallbacks]_vars

\* The table of container c has nothing for t of its own: no entry under t, no
\* entry of a type implementing the interface t, and no entry contributing to
\* the slice or map of interfaces t.
NothingOwn(c, t) ==
  /\ bindings[c][t] = 0
  /\ Kind(t) = "interface" => scanKeys(c, t) = {}
  /\ Kind(t) = "slice" => sliceMatches(c, t) = <<>>
  /\ Kind(t) = "map" => mappingMatches(c, t) = <<>>

\* The types a Get of t on container c may resolve to something bound.
Bound(c, t) ==
  /\ resolve(c, t, 0).err = NoErr
  /\ resolve(c, t, 0).id = 0 => resolve(c, t, 0).ids # <<>>

\* C12: a Get on a child of a type that the child's own table has nothing for
\* and that its parent resolves to something bound succeeds as the same Get on
\* the parent does, and returns what that Get returns.
C12_ChildFallback ==
  [][\A c \in Containers, t \in Types :
       /\ last'.op = "Get" /\ last'.c = c /\ last'.t = t
       /\ parent[c] # 0 /\ NothingOwn(c, t) /\ Bound(parent[c], t)
       => \E ord \in Ords :
            LET same(r) == r.err = NoErr => last'.err = NoErr /\ last'.val = r.val
            IN  same(getReflected(Mem(cells, calls, stack, {}, ord), parent[c], t))]_vars

\* A root container and children of it, each bound values of int (two
\* payloads, so that a child's differs from its parent's) and a provider of
\* string that requires int.
ThingsChildren == {Lit("int", 1), Lit("int", 2), Func("fStrOfInt")}

NextChildren ==
  \/ \E c \in Containers, x \in ThingsChildren :
       Registered(bindingOrder) < MaxChildBinds /\ Bind(c, <<x>>)
  \/ \E c \in Containers : Child(c)
  \/ Gets({"int", "string"}) /\ \A i \in 1 .. Len(heap) : calls'[i] <= MaxChildCalls

SpecChildren == Init /\ [][NextChildren]_vars

\* The type t has an entry on the child c and one on its parent.
Shadowed(c, t) == parent[c] # 0 /\ bindings[c][t] # 0 /\ bindings[parent[c]][t] # 0

\* The step is a Get of t on container c.
GetOf(c, t) == last'.op = "Get" /\ last'.c = c /\ last'.t = t

\* What the Get of the step returned is what the entry of t on container c
\* makes: its literal, or the value its provider function has just made (or the
\* error that an argument of that function is unbound); and no other provider
\* bound for t was invoked.
FromEntry(c, t, others) ==
  /\ CASE heap[bindings[c][t]].kind = "literal" ->
            last'.err = NoErr /\ last'.val = heap[bindings[c][t]].val
       [] heap[bindings[c][t]].kind = "provider" ->
            IF last'.err = NoErr
              THEN /\ last'.val[1].src = bindings[c][t]
                   /\ last'.val[1].n = calls'[bindings[c][t]]
                   /\ calls'[bindings[c][t]] = calls[bindings[c][t]] + 1
              ELSE Cause(last'.err) = "unbound"
       [] OTHER -> FALSE
  /\ \A d \in others : calls'[bindings[d][t]] = calls[bindings[d][t]]

\* C13: a Bind on a child of a type bound on its parent succeeds and leaves the
\* parent's table as it was; from then on a Get of the type on the child
\* returns what the child's entry makes and a Get on the parent what the
\* parent's entry makes.
C13_ChildShadows ==
  [][\A c \in Containers, t \in Types :
       /\ /\ last'.op = "Bind" /\ last'.c = c /\ last'.t = t
          /\ parent[c] # 0 /\ bindings[c][t] = 0 /\ bindings[parent[c]][t] # 0
          => /\ last'.err = NoErr
             /\ bindings'[c][t] # 0 /\ heap'[bindings'[c][t]].on = c
             /\ bindings'[parent[c]] = bindings[parent[c]]
       /\ Shadowed(c, t) /\ GetOf(c, t) => FromEntry(c, t, {parent[c]})
       /\ Shadowed(c, t) /\ GetOf(parent[c], t) => FromEntry(parent[c], t, {c})]_vars

\* int is bound to one value on the parent and to another on the child, and a
\* Get of int on the child has returned the child's.
C13_Witness ==
  \E c \in Containers :
    /\ Shadowed(c, "int")
    /\ heap[bindings[c]["int"]].val # heap[bindings[parent[c]]["int"]].val
    /\ last.op = "Get" /\ last.c = c /\ last.t = "int"
    /\ last.err = NoErr /\ last.val = heap[bindings[c]["int"]].val

\* ------------------------------------------------------------------ isolation

\* A root container and children of it, on each of which every operation is
\* performed: Bind of an int and of a slice of Stringer, BindTo of a
\* notQuiteStringer as Stringer, Install of module A, Get, Call and Validate.
ThingsIsolation == {Lit("int", 1), Value("[]Stringer", <<Atom("NQS", 0, 1, <<>>)>>)}

NextIsolation ==
  \/ \E c \in Containers, x \in ThingsIsolation :
       Registered(bindingOrder) < MaxIsolationBinds /\ Bind(c, <<x>>)
  \/ \E c \in Containers :
       Registered(bindingOrder) < MaxIsolationBinds /\ BindTo(c, "*Stringer", Lit("NQS", 1))
  \/ \E c \in Containers :
       Registered(bindingOrder) < MaxIsolationBinds /\ Install(c, << <<"A", Zero>> >>)
  \/ \E c \in Containers : Child(c)
  \/ Gets({"int", "Stringer", "[]Stringer"})
  \/ Calls({"useStrInt"})
  \/ \E c \in Containers : Validate(c, "useStrInt")

SpecIsolation == Init /\ [][NextIsolation]_vars

\* The containers above c: its parent, the parent of that one, and so on.
RECURSIVE Ancestors(_)
Ancestors(c) == IF parent[c] = 0 THEN {} ELSE {parent[c]} \cup Ancestors(parent[c])

\* No operation changes the table, the registration order or the module
\* registry of a container other than the one it is performed on.
OthersKept ==
  \A d \in Containers :
    d # last'.c => /\ bindings'[d] = bindings[d]
                   /\ bindingOrder'[d] = bindingOrder[d]
                   /\ modules'[d] = modules[d]
                   /\ parent'[d] = parent[d]

\* The type t has an entry on the child c, and neither the container p above it
\* nor a container above p has anything for t.
OnlyBelow(c, p, t) ==
  /\ p \in Ancestors(c) /\ bindings[c][t] # 0
  /\ \A a \in {p} \cup Ancestors(p) : NothingOwn(a, t)

OfInterfaces(t) == Kind(t) \in {"slice", "map"} /\ Kind(Elem(t)) = "interface"

ThingsValidate ==
  {Lit("int", 1), Func("fStrOfInt"), Singleton(Func("fStrOfInt")),
   Sequence(Func("fIntsOfStr")), Sequence(Slice("[]int", 1))}

TargetsValidate == {"useStrInt", "useInts"}

NextValidate ==
  \/ \E c \in Containers, x \in ThingsValidate : Bind(c, <<x>>)
  \/ \E c \in Containers, f \in TargetsValidate : Validate(c, f)
  \/ Calls(TargetsValidate)

SpecValidate == Init /\ [][NextValidate]_vars

\* C15: a Validate invokes no provider function and builds nothing, and leaves
\* the table, the registration order, the bindings, the types under
\* construction and every Singleton's cache as they were, whether it returns
\* an error or not.
C15_ValidatePure ==
  [][last'.op = "Validate"
       => UNCHANGED <<parent, bindings, bindingOrder, stack, modules, heap, cells, calls>>]_vars

\* A Validate has succeeded on a container with a Singleton that has been
\* built once and a provider that has been invoked, and one has failed.
C15_Witness ==
  /\ last.op = "Validate"
  /\ \E i, j \in 1 .. Len(heap) :
       /\ heap[i].kind = "singleton" /\ cells[i].isCached /\ calls[heap[i].inner] = 1
       /\ heap[j].kind = "provider" /\ calls[j] >= 1
  /\ last.err = NoErr

\* C16: a Validate of f succeeds exactly when a Call of f, made in the same
\* state with no provider returning an error, does not fail on an unbound type.
C16_ValidateAgrees ==
  last.op = "Validate"
    => (last.err = NoErr
          <=> \A ord \in Ords :
                Cause(Call(Mem(cells, calls, stack, {}, ord), last.c, last.f, 0).err) # "unbound")

\* ---------------------------------------------------------------------- calls

\* A container that is bound int and string as values and as providers, one of
\* which may return an error and one of which requires the other's type; the
\* functions called take string then int, and return nothing, an int and an
\* error, or an error alone.
ThingsCalls ==
  {Lit("int", 1), Func("fIntE"), Lit("string", 1), Func("fStrOfInt")}

TargetsCalls == {"useStrInt", "useStrIntE", "useNothingE"}

NextCalls ==
  \/ \E c \in Containers, x \in ThingsCalls : Bind(c, <<x>>)
  \/ Calls(TargetsCalls)

SpecCalls == Init /\ [][NextCalls]_vars

\* The step is a Call of f on container c.
CallOf(c, f) == last'.op = "Call" /\ last'.c = c /\ last'.f = f

\* The Call of the step did what building the parameters from the K-th on, one
\* after the other from memory m, comes to: it stopped at the first that failed,
\* with an error naming its position and the type of f, f not run and nothing
\* invoked after that failure; or it built them all.
RECURSIVE InOrder(_, _, _, _)
InOrder(m, c, f, K) ==
  LET ft == FuncSig(f)
      got(a) ==
        IF a.err # NoErr
          THEN /\ last'.err = <<Msg("inject", K, ft)>> \o a.err
               /\ last'.ran = 0 /\ last'.rets = <<>>
               /\ calls' = a.m.calls /\ cells' = a.m.cells
          ELSE InOrder(a.m, c, f, K + 1)
  IN  IF K > Len(ft.ins) THEN Len(last'.err) <= 1
      ELSE got(getReflected(m, c, ft.ins[K]))

\* C17: a Call builds the parameters of f one at a time in declared order; if
\* building the K-th fails, the Call fails with an error that names position K
\* and the type of f, f is not run, and no binding is built for a later
\* parameter.
C17_CallInOrder ==
  [][\A c \in Containers, f \in TargetsCalls :
       CallOf(c, f)
         => \E fail \in FailSets(f), ord \in Ords :
              InOrder(Mem(cells, calls, stack, fail, ord), c, f, 1)]_vars

\* A Call of a function of string then int has failed on its second parameter,
\* whose provider returned an error, the first having been built, and the
\* function did not run.
C17_Witness ==
  /\ last.op = "Call" /\ last.f = "useStrInt" /\ last.ran = 0
  /\ last.err = <<Msg("inject", 2, FuncSig("useStrInt"))>> \o Err("failed")
  /\ bindings[last.c]["string"] # 0

\* The values a function handed to Call returns when its last one is no error:
\* one of each type it declares, a nil for a declared error.
Declared(f, args) ==
  [i \in 1 .. Len(FuncSig(f).outs) |->
     IF FuncSig(f).outs[i] = "error" THEN Nil
     ELSE <<Atom(FuncSig(f).outs[i], 0, 0,
                 IF i = 1 /\ args # <<>> THEN <<args[1][1].src, args[1][1].n>> ELSE <<>>)>>]

\* C18: once its arguments are injected, a Call runs f exactly once; if the
\* last value f returns is an error that is not nil, the Call fails with that
\* very error, not wrapped, and returns no values; else it succeeds and returns
\* every value f returned, in order.
C18_CallReturns ==
  [][\A c \in Containers, f \in TargetsCalls :
       CallOf(c, f)
         => \E fail \in FailSets(f), ord \in Ords :
              LET injected(a) ==
                    /\ calls' = a.m.calls /\ cells' = a.m.cells
                    /\ a.err = NoErr
                         => /\ last'.ran = 1
                            /\ IF f \in fail
                                 THEN last'.err = Err("failed") /\ last'.rets = <<>>
                                 ELSE last'.err = NoErr /\ last'.rets = Declared(f, a.val)
              IN  injected(inject(Mem(cells, calls, stack, fail, ord), c, FuncSig(f), 1, <<>>))]_vars

\* A Call of a function that returns an int, a string and a nil error has run
\* it once and returned the three values in that order.
C18_Witness ==
  /\ last.op = "Call" /\ last.f = "useStrIntE" /\ last.ran = 1 /\ last.err = NoErr
  /\ Len(last.rets) = 3
  /\ last.rets[1][1].dyn = "int" /\ last.rets[2][1].dyn = "string" /\ last.rets[3] = Nil

\* ------------------------------------------------------------------- BindTo

\* The targets and implementations of BindTo, each with what Go's types make
\* of the pair: notQuiteStringer implements Stringer and a string does not; an
\* int converts to notQuiteStringer, a string does not convert to int.
ImplsBindTo ==
  {<<"*Stringer", Lit("NQS", 1), "ok">>, <<"*Stringer", Lit("string", 1), "mismatch">>,
   <<"*Stringer", Func("fInt"), "mismatch">>,
   <<"NQS", Lit("int", 1), "ok">>, <<"NQS", Func("fInt"), "ok">>,
   <<"NQS", Func("fIntOfInt"), "ok">>,
   <<"int", Lit("string", 1), "convert">>, <<"int", Func("fStr"), "convert">>}

NextBindTo ==
  \/ \E c \in Containers : Bind(c, <<Lit("int", 1)>>)
  \/ \E c \in Containers, ai \in ImplsBindTo : BindTo(c, ai[1], ai[2])
  \/ Gets({"NQS", "int", "Stringer"})

SpecBindTo == Init /\ [][NextBindTo]_vars

\* C19: a BindTo to an interface that the implementation's type does not
\* implement fails with the mismatch error, and one to a concrete type, not yet
\* bound, that the implementation's type does not convert to fails with the
\* conversion error; neither changes the table, the registration order or a
\* binding, and a Get of a type the table resolves nothing for is unbound.
C19_BindToIncompatible ==
  /\ [][\A c \in Containers, ai \in ImplsBindTo :
          BindTo(c, ai[1], ai[2]) /\ ai[3] # "ok" /\ bindings[c][ai[1]] = 0
            => /\ last'.err = Err(ai[3])
               /\ UNCHANGED <<bindings, bindingOrder, heap>>]_vars
  /\ [](last.op = "Get" /\ resolve(last.c, KeyOf(last.t), 0).err # NoErr
          => last.err = Err("unbound") /\ last.val = Nil)

\* A BindTo of a string to int has just failed with the conversion error on a
\* container that another type was bound on, int being unbound as before.
C19_Witness ==
  /\ last.op = "BindTo" /\ last.t = "int" /\ last.err = Err("convert")
  /\ bindings[last.c]["int"] = 0 /\ bindings[last.c]["NQS"] # 0

\* What the binding id, the implementation of a BindTo, has just built: its
\* literal, or the value its provider function made in its latest invocation.
JustBuilt(id, val) ==
  IF heap[id].kind = "literal" THEN val = heap[id].val
  ELSE /\ Len(val) = 1 /\ val[1].src = id /\ val[1].n = calls[id]
       /\ val[1].dyn = heap[id].Provides

\* C20: a Get of a concrete type bound with BindTo builds the implementation
\* anew and returns what it built, converted to the type; a Get of an interface
\* bound with BindTo returns what the implementation built as it is. The Get
\* fails only as the build of the implementation fails: on an unbound type.
C20_BindToConverts ==
  /\ last.op = "Get" /\ bindings[last.c][KeyOf(last.t)] # 0
  /\ \/ heap[bindings[last.c][KeyOf(last.t)]].kind = "convert"
     \/ Kind(KeyOf(last.t)) = "interface"
  => IF last.err # NoErr THEN Cause(last.err) = "unbound"
     ELSE IF Kind(KeyOf(last.t)) = "interface"
       THEN JustBuilt(bindings[last.c][KeyOf(last.t)], last.val)
     ELSE /\ last.val[1].dyn = last.t
          /\ JustBuilt(heap[bindings[last.c][last.t]].inner,
                       Convert(last.val, heap[heap[bindings[last.c][last.t]].inner].Provides))

\* The types that the binding of type t on container c requires.
DependsOn(c, t) ==
  IF bindings[c][t] = 0 THEN {}
  ELSE {KeyOf(heap[bindings[c][t]].Requires[i]) :
          i \in DOMAIN heap[bindings[c][t]].Requires}

\* The types reached from the set T in at most n more steps of DependsOn.
RECURSIVE Reaches(_, _, _)
Reaches(c, T, n) ==
  IF n = 0 THEN T
  ELSE Reaches(c, T \cup UNION {DependsOn(c, u) : u \in T}, n - 1)

\* No type bound on container c requires itself, directly or through others.
Acyclic(c) ==
  \A t \in Types : t \notin Reaches(c, DependsOn(c, t), Cardinality(Types))

\* C28: on a container whose bindings, those made with BindTo included,
\* require no type through itself, no Get reports a recursive binding.
C28_NoFalseCycle ==
  last.op = "Get" /\ Acyclic(last.c) => Cause(last.err) # "recursive"

\* ---------------------------------------------------------- provider shapes

\* Functions of every shape: without results, returning only an error, two
\* values the second of which is no error, three values; and the two shapes of
\* a provider.
FuncsShapes == {"fNothing", "fErr", "fIntStr", "fIntStrE", "fInt", "fIntE", "fStrOfInt"}

\* Each is bound bare, as a Provider and as a Singleton.
ThingsShapes ==
  {Func(f) : f \in FuncsShapes} \cup {Provider(Func(f)) : f \in FuncsShapes}
    \cup {Singleton(Func(f)) : f \in FuncsShapes}

NextShapes ==
  \/ \E c \in Containers, x \in ThingsShapes : Bind(c, <<x>>)
  \/ Gets({"int", "string"})

SpecShapes == Init /\ [][NextShapes]_vars

\* The shapes the claim rejects.
Rejected(f) ==
  \/ Len(FuncSig(f).outs) = 0
  \/ FuncSig(f).outs = <<"error">>
  \/ Len(FuncSig(f).outs) = 2 /\ FuncSig(f).outs[2] # "error"
  \/ Len(FuncSig(f).outs) >= 3

\* C21: a Bind of a function of a rejected shape returns the shape error and
\* binds nothing; a Bind of a function returning a value, or a value and an
\* error, succeeds unless the type is bound already, and registers a binding
\* that provides the first return type and requires the parameter types in order.
C21_ProviderShape ==
  [][\A c \in Containers, x \in ThingsShapes :
       Bind(c, <<x>>)
         => IF Rejected(x.f)
              THEN /\ last'.err = Err("shape")
                   /\ UNCHANGED <<bindings, bindingOrder, heap>>
              ELSE /\ last'.err = (IF bindings[c][FuncSig(x.f).outs[1]] # 0
                                    THEN Err("duplicate") ELSE NoErr)
                   /\ last'.err = NoErr
                        => /\ bindings'[c][FuncSig(x.f).outs[1]] = Len(heap')
                           /\ heap'[Len(heap')].Provides = FuncSig(x.f).outs[1]
                           /\ heap'[Len(heap')].Requires = FuncSig(x.f).ins]_vars

\* ------------------------------------------------- what a Singleton may wrap

\* What is wrapped in Singleton: providers, bare and annotated, Sequences and
\* Mappings of providers and of literals, and a literal.
WrappedSingletons ==
  {Func("fInt"), Provider(Func("fStr")), Sequence(Func("fInts")), Mapping(Func("fMap")),
   Lit("int", 1), Sequence(Slice("[]int", 1)), Mapping(MapLit("map[string]int", 1, 1))}

NextSingletons ==
  \/ \E c \in Containers, y \in WrappedSingletons : Bind(c, <<Singleton(y)>>)
  \/ Gets({"int", "string", "[]int", "map[string]int"})

SpecSingletons == Init /\ [][NextSingletons]_vars

\* What the claim accepts: a Provider, or a Sequence or a Mapping whose leaf is
\* a Provider.
Acceptable(y) ==
  /\ Annotate(y)[Len(Annotate(y))] = "Provider"
  /\ \A i \in 1 .. Len(Annotate(y)) - 1 : Annotate(y)[i] \in {"Sequence", "Mapping"}

\* C22: a Bind of Singleton(y) registers a binding when y is a Provider, or a
\* Sequence or a Mapping whose leaf is a Provider (the type not being bound
\* already, unless y merges), and is rejected for any other y, adding nothing.
C22_SingletonPrecondition ==
  [][\A c \in Containers, y \in WrappedSingletons :
       Bind(c, <<Singleton(y)>>)
         => IF Acceptable(y)
              THEN \/ last'.err = NoErr /\ Len(bindingOrder'[c]) = Len(bindingOrder[c]) + 1
                   \/ /\ last'.err = Err("duplicate") /\ ~Mergeable(y)
                      /\ bindings[c][providesOf(c, y)] # 0
              ELSE /\ last'.err = Err("notprovider")
                   /\ UNCHANGED <<bindings, bindingOrder, heap>>]_vars

\* ------------------------------------------------------ implicit containers

\* Config has two flags; the configurations of the run set at most one.
Configs ==
  {cfg \in [ImplicitSequences : BOOLEAN, ImplicitMappings : BOOLEAN] :
     ~(cfg.ImplicitSequences /\ cfg.ImplicitMappings)}

\* Injector.resolve, were it to ignore its Config.
RECURSIVE InjectorResolveNoConfig(_, _, _)
InjectorResolveNoConfig(c, t, ord) ==
  IF bindings[c][t] # 0
    THEN Ref(NoErr, bindings[c][t], "none", <<>>, heap[bindings[c][t]].Provides)
  ELSE IF Kind(t) = "interface" /\ scanKeys(c, t) # {}
    THEN LET id == bindings[c][Pick(scanKeys(c, t), ord)]
         IN  Ref(NoErr, id, "none", <<>>, heap[id].Provides)
  ELSE IF Kind(t) = "slice" /\ Kind(Elem(t)) = "interface" THEN resolveSlice(c, t)
  ELSE IF Kind(t) = "map" /\ Kind(Elem(t)) = "interface" THEN resolveMapping(c, t)
  ELSE IF parent[c] # 0 THEN InjectorResolveNoConfig(parent[c], t, ord)
  ELSE Unbound

\* Injector.resolve of the Injector that has a Config (inject.go): as resolve,
\* with the two implicit containers before the parent is asked.
RECURSIVE InjectorResolve(_, _, _)
InjectorResolve(c, t, ord) ==
  IF bindings[c][t] # 0
    THEN Ref(NoErr, bindings[c][t], "none", <<>>, heap[bindings[c][t]].Provides)
  ELSE IF Kind(t) = "interface" /\ scanKeys(c, t) # {}
    THEN LET id == bindings[c][Pick(scanKeys(c, t), ord)]
         IN  Ref(NoErr, id, "none", <<>>, heap[id].Provides)
  ELSE IF Kind(t) = "slice" /\ Kind(Elem(t)) = "interface" THEN resolveSlice(c, t)
  ELSE IF Kind(t) = "map" /\ Kind(Elem(t)) = "interface" THEN resolveMapping(c, t)
  \* reflect.MakeSlice(t, 0, 0)
  ELSE IF config[c].ImplicitSequences /\ Kind(t) = "slice" THEN Ref(NoErr, 0, "slice", <<>>, t)
  \* reflect.MakeMap(t)
  ELSE IF config[c].ImplicitMappings /\ Kind(t) = "map" THEN Ref(NoErr, 0, "map", <<>>, t)
  ELSE IF parent[c] # 0 THEN InjectorResolve(parent[c], t, ord)
  ELSE Unbound

\* Injector.Get of that Injector: resolve, then Build.
injectorGet(m, c, t) ==
  LET resolved(r) == IF r.err # NoErr THEN Res(m, r.err, Nil) ELSE buildRef(m, r)
  IN  resolved(InjectorResolve(c, t, m.ord))

\* The argument loop of Injector.Call, from argument ai on.
RECURSIVE injectorInject(_, _, _, _, _)
injectorInject(m, c, ft, ai, args) ==
  LET got(a) ==
        IF a.err # NoErr THEN Res(a.m, <<Msg("inject", ai, ft)>> \o a.err, <<>>)
        ELSE injectorInject(a.m, c, ft, ai + 1, Append(args, a.val))
  IN  IF ai > Len(ft.ins) THEN Res(m, NoErr, args)
      ELSE got(injectorGet(m, c, ft.ins[ai]))

\* Injector.Call of a function the caller hands in.
injectorCall(m, c, f) ==
  LET injected(a) ==
        IF a.err # NoErr THEN Res(a.m, a.err, <<>>)
        ELSE returns([a.m EXCEPT !.ran = @ + 1], f, 0, a.val)
  IN  injected(injectorInject(m, c, FuncSig(f), 1, <<>>))

\* i.Configure(config)
Configure(c, cfg) ==
  /\ ~Hung
  /\ config' = [config EXCEPT ![c] = cfg]
  /\ last' = [NoLast EXCEPT !.op = "Configure", !.c = c]
  /\ UNCHANGED <<parent, bindings, bindingOrder, stack, modules, heap, cells, calls, threads>>

\* i.Get(t) of the Injector that has a Config
InjectorGet(c, t) ==
  LET returned(r) ==
        /\ Got(r)
        /\ last' = [NoLast EXCEPT !.op = "Injector.Get", !.c = c, !.t = t, !.err = r.err,
                                  !.val = r.val]
  IN  ~Hung /\ returned(injectorGet(Mem(cells, calls, stack, {}, 0), c, t))

\* i.Call(f) of the Injector that has a Config
InjectorCall(c, f) ==
  LET returned(r) ==
        /\ Got(r)
        /\ last' = [NoLast EXCEPT !.op = "Injector.Call", !.c = c, !.f = f, !.ran = r.m.ran,
                                  !.err = r.err,
                                  !.rets = IF r.err = NoErr THEN r.val ELSE <<>>]
  IN  ~Hung /\ returned(injectorCall(Mem(cells, calls, stack, {}, 0), c, f))

\* A slice of ints is bound, or not, on a container or its parent, and a slice
\* and a map are asked for with and without the implicit containers
\* configured; a container is configured once.
ThingsImplicit == {Sequence(Slice("[]int", 1))}
TypesImplicit == {"[]int", "map[string]int"}
TargetsImplicit == {"useInts"}

NextImplicit ==
  \/ \E c \in Containers, x \in ThingsImplicit :
       Registered(bindingOrder) < MaxIsolationBinds /\ Bind(c, <<x>>)
  \/ \E c \in Containers, cfg \in Configs : config[c] = NoConfig /\ Configure(c, cfg)
  \/ \E c \in Containers : Child(c)
  \/ Gets(TypesImplicit)
  \/ Calls(TargetsImplicit)
  \/ \E c \in Containers, t \in TypesImplicit : InjectorGet(c, t)
  \/ \E c \in Containers, f \in TargetsImplicit : InjectorCall(c, f)

SpecImplicit == Init /\ [][NextImplicit]_vars

\* A slice or map type whose element type is no interface.
Plain(t) == Kind(t) \in {"slice", "map"} /\ Kind(Elem(t)) # "interface"

\* Neither container c nor an ancestor of it has a binding for t.
NoneBound(c, t) == \A d \in {c} \cup Ancestors(c) : bindings[d][t] = 0

\* The implicit container of the kind of t is configured on c or an ancestor.
Implicit(c, t) ==
  \E d \in {c} \cup Ancestors(c) :
    IF Kind(t) = "slice" THEN config[d].ImplicitSequences ELSE config[d].ImplicitMappings

\* C23: a Get, and a Call of a function that takes it, of a plain slice or map
\* type that neither the container nor an ancestor has a binding for fails with
\* the unbound-type error (the function is not run) when no implicit container
\* of its kind is configured, as it always does on a SafeInjector; with the
\* implicit container configured, the Get returns the empty container of the
\* type asked for and the Call runs the function.
C23_PlainContainers ==
  /\ last.op = "Get" /\ Plain(last.t) /\ NoneBound(last.c, last.t)
       => last.err = Err("unbound") /\ last.val = Nil
  /\ last.op = "Call" /\ last.f \in TargetsImplicit /\ NoneBound(last.c, FuncSig(last.f).ins[1])
       => last.err = <<Msg("inject", 1, FuncSig(last.f))>> \o Err("unbound") /\ last.ran = 0
  /\ last.op = "Injector.Get" /\ Plain(last.t) /\ NoneBound(last.c, last.t)
       => IF Implicit(last.c, last.t)
            THEN /\ last.err = NoErr
                 /\ last.val = (IF Kind(last.t) = "slice" THEN <<>> ELSE EmptyMap)
                 /\ InjectorResolve(last.c, last.t, 0).Provides = last.t
            ELSE last.err = Err("unbound") /\ last.val = Nil
  /\ last.op = "Injector.Call" /\ NoneBound(last.c, FuncSig(last.f).ins[1])
       => IF Implicit(last.c, FuncSig(last.f).ins[1])
            THEN last.err = NoErr /\ last.ran = 1
            ELSE /\ last.err = <<Msg("inject", 1, FuncSig(last.f))>> \o Err("unbound")
                 /\ last.ran = 0

\* A child with implicit sequences configured, whose parent has implicit
\* mappings configured and no slice bound, has returned the empty slice for []int.
C23_Witness ==
  /\ last.op = "Injector.Get" /\ last.t = "[]int" /\ parent[last.c] # 0
  /\ config[last.c].ImplicitSequences /\ config[parent[last.c]].ImplicitMappings
  /\ NoneBound(last.c, "[]int")
  /\ last.err = NoErr /\ last.val = <<>>

\* -------------------------------------------------------- concurrent Gets

\* A frame of getReflected on a goroutine's stack: the container and the type
\* asked for, the binding resolve returned, where the goroutine is, the
\* arguments injected so far, and what Build returns.
Frame(c, t) == [c |-> c, t |-> t, id |-> 0, pc |-> "resolve", args |-> <<>>, err |-> NoErr,
                val |-> Nil]

Top(th) == threads[th].frames[Len(threads[th].frames)]
At(th, pc) == threads[th].frames # <<>> /\ Top(th).pc = pc
SetTop(th, fr) == [threads EXCEPT ![th].frames[Len(threads[th].frames)] = fr]

\* The provider whose function a frame calls: the binding, or the one a
\* Singleton wraps.
Prov(fr) == IF heap[fr.id].kind = "singleton" THEN heap[fr.id].inner ELSE fr.id

\* The goroutine is between lock.Lock() and the deferred lock.Unlock() of the
\* closure of the Singleton id.
Holds(th, id) ==
  \E i \in 1 .. Len(threads[th].frames) :
    /\ threads[th].frames[i].id = id
    /\ threads[th].frames[i].pc \in {"cached", "args", "invoke", "store", "flag", "unlock"}

\* A Mutex that never blocks.
LockFreeAlways(id) == TRUE

\* sync.Mutex: Lock returns when no goroutine holds the lock.
LockFree(id) == \A o \in Threads : ~Holds(o, id)

\* A fatal error of the runtime ends the program.
Crashed == \E th \in Threads : threads[th].err = Err("fatal")

\* getReflected returns err and val to its caller: to the caller of Get, or to
\* the argument loop of Call, which wraps an error, the provider's closure then
\* returning it (to the Singleton's closure, if there is one).
Return(th, err, val) ==
  LET fs == threads[th].frames
      n == Len(fs)
      failed(caller) ==
        [caller EXCEPT !.err = Wrap(Len(caller.args) + 1, FuncSig(heap[Prov(caller)].fn), err),
                       !.val = Nil,
                       !.pc = IF heap[caller.id].kind = "singleton" THEN "store" ELSE "unmark"]
  IN  IF n = 1
        THEN [threads EXCEPT ![th] = [@ EXCEPT !.frames = <<>>, !.done = TRUE, !.err = err,
                                               !.val = val]]
      ELSE [threads EXCEPT ![th].frames =
              Append(SubSeq(fs, 1, n - 2),
                     IF err # NoErr THEN failed(fs[n - 1])
                     ELSE [fs[n - 1] EXCEPT !.args = Append(@, val)])]

\* The goroutine is at one of the accesses of the map s.stack, which no lock
\* protects; another goroutine is at one too, on the same container.
AtStack(th) == At(th, "check") \/ At(th, "mark") \/ At(th, "unmark")
Racing(th) == \E o \in Threads \ {th} : AtStack(o) /\ Top(o).c = Top(th).c

\* What a write of the map leaves in it: what was written, or, when it races
\* with another access, any part of it.
Written(th, S) == IF Racing(th) THEN SUBSET S ELSE {S}

\* go s.Get(t): each goroutine calls Get once.
Start(th, c, t) ==
  /\ ~Crashed /\ threads[th] = Idle
  /\ threads' = [threads EXCEPT ![th] = [Idle EXCEPT !.frames = <<Frame(c, t)>>, !.t = t]]
  /\ UNCHANGED <<parent, bindings, bindingOrder, stack, modules, heap, cells, calls, config, last>>

\* binding, err := s.resolve(t)
Resolve(th) ==
  LET fr == Top(th)
      resolved(r) ==
        IF r.err # NoErr THEN Return(th, r.err, Nil)
        ELSE SetTop(th, [fr EXCEPT !.id = r.id, !.pc = "check"])
  IN  /\ ~Crashed /\ At(th, "resolve")
      /\ threads' = resolved(resolve(fr.c, IF IsPtrToInterface(fr.t) THEN Elem(fr.t) ELSE fr.t, 0))
      /\ UNCHANGED <<parent, bindings, bindingOrder, stack, modules, heap, cells, calls, config, last>>

\* if s.stack[binding.Provides]
Check(th) ==
  LET fr == Top(th)
  IN  /\ ~Crashed /\ At(th, "check")
      /\ threads' = IF heap[fr.id].Provides \in stack[fr.c] THEN Return(th, Err("recursive"), Nil)
                    ELSE SetTop(th, [fr EXCEPT !.pc = "mark"])
      /\ UNCHANGED <<parent, bindings, bindingOrder, stack, modules, heap, cells, calls, config, last>>

\* s.stack[binding.Provides] = true, then binding.Build(): a literal is built
\* at once.
Mark(th) ==
  LET fr == Top(th)
      b == heap[fr.id]
  IN  /\ ~Crashed /\ At(th, "mark")
      /\ \E S \in Written(th, stack[fr.c] \cup {b.Provides}) : stack' = [stack EXCEPT ![fr.c] = S]
      /\ threads' = SetTop(th, CASE b.kind = "literal" -> [fr EXCEPT !.val = b.val, !.pc = "unmark"]
                                 [] b.kind = "singleton" -> [fr EXCEPT !.pc = "lock"]
                                 [] OTHER -> [fr EXCEPT !.pc = "args"])
      /\ UNCHANGED <<parent, bindings, bindingOrder, modules, heap, cells, calls, config, last>>

\* lock.Lock()
Lock(th) ==
  /\ ~Crashed /\ At(th, "lock") /\ LockFree(Top(th).id)
  /\ threads' = SetTop(th, [Top(th) EXCEPT !.pc = "cached"])
  /\ UNCHANGED <<parent, bindings, bindingOrder, stack, modules, heap, cells, calls, config, last>>

\* if !isCached
Cached(th) ==
  LET fr == Top(th)
  IN  /\ ~Crashed /\ At(th, "cached")
      /\ threads' = SetTop(th, IF cells[fr.id].isCached
                                 THEN [fr EXCEPT !.val = cells[fr.id].cached, !.pc = "unlock"]
                               ELSE [fr EXCEPT !.pc = "args"])
      /\ UNCHANGED <<parent, bindings, bindingOrder, stack, modules, heap, cells, calls, config, last>>

\* The argument loop of i.Call(p.v): a Get of the next parameter type, or, the
\* arguments injected, on to the call.
Args(th) ==
  LET fr == Top(th)
      ins == heap[Prov(fr)].Requires
  IN  /\ ~Crashed /\ At(th, "args")
      /\ threads' = IF Len(fr.args) < Len(ins)
                      THEN [threads EXCEPT ![th].frames =
                              Append(@, Frame(heap[Prov(fr)].on, ins[Len(fr.args) + 1]))]
                    ELSE SetTop(th, [fr EXCEPT !.pc = "invoke"])
      /\ UNCHANGED <<parent, bindings, bindingOrder, stack, modules, heap, cells, calls, config, last>>

\* fv.Call(args): the function runs, and may return an error if it can.
Invoke(th) ==
  LET fr == Top(th)
      p == Prov(fr)
      next == IF heap[fr.id].kind = "singleton" THEN "store" ELSE "unmark"
  IN  /\ ~Crashed /\ At(th, "invoke") /\ calls[p] < MaxCalls
      /\ calls' = [calls EXCEPT ![p] = @ + 1]
      /\ \E fails \in (IF Fallible(heap[p].fn) THEN BOOLEAN ELSE {FALSE}) :
           threads' = SetTop(th, IF fails THEN [fr EXCEPT !.err = Err("failed"), !.pc = next]
                                 ELSE [fr EXCEPT !.val = FnOut(heap[p].fn, p, calls'[p], fr.args),
                                                 !.pc = next])
      /\ UNCHANGED <<parent, bindings, bindingOrder, stack, modules, heap, cells, config, last>>

\* cached, err = builder.Build()
StoreCached(th) ==
  LET fr == Top(th)
  IN  /\ ~Crashed /\ At(th, "store")
      /\ cells' = [cells EXCEPT ![fr.id].cached = fr.val]
      /\ threads' = SetTop(th, [fr EXCEPT !.pc = "flag"])
      /\ UNCHANGED <<parent, bindings, bindingOrder, stack, modules, heap, calls, config, last>>

\* isCached = true
Flag(th) ==
  LET fr == Top(th)
  IN  /\ ~Crashed /\ At(th, "flag")
      /\ cells' = [cells EXCEPT ![fr.id].isCached = TRUE]
      /\ threads' = SetTop(th, [fr EXCEPT !.pc = "unlock"])
      /\ UNCHANGED <<parent, bindings, bindingOrder, stack, modules, heap, calls, config, last>>

\* return cached, err, and the deferred lock.Unlock()
Unlock(th) ==
  /\ ~Crashed /\ At(th, "unlock")
  /\ threads' = SetTop(th, [Top(th) EXCEPT !.pc = "unmark"])
  /\ UNCHANGED <<parent, bindings, bindingOrder, stack, modules, heap, cells, calls, config, last>>

\* The deferred delete(s.stack, binding.Provides), and the return.
Unmark(th) ==
  LET fr == Top(th)
  IN  /\ ~Crashed /\ At(th, "unmark")
      /\ \E S \in Written(th, stack[fr.c] \ {heap[fr.id].Provides}) :
           stack' = [stack EXCEPT ![fr.c] = S]
      /\ threads' = Return(th, fr.err, fr.val)
      /\ UNCHANGED <<parent, bindings, bindingOrder, modules, heap, cells, calls, config, last>>

\* fatal error: concurrent map writes (or: concurrent map read and map write)
Fatal ==
  /\ ~Crashed
  /\ \E th \in Threads : (At(th, "mark") \/ At(th, "unmark")) /\ Racing(th)
  /\ threads' = [th \in Threads |-> [Idle EXCEPT !.done = TRUE, !.err = Err("fatal")]]
  /\ UNCHANGED <<parent, bindings, bindingOrder, stack, modules, heap, cells, calls, config, last>>

\* One step of a goroutine inside Get.
Step(th) ==
  \/ Resolve(th) \/ Check(th) \/ Mark(th) \/ Lock(th) \/ Cached(th) \/ Args(th)
  \/ Invoke(th) \/ StoreCached(th) \/ Flag(th) \/ Unlock(th) \/ Unmark(th)

\* A container is bound a Singleton provider of int and a provider of string
\* that takes the int, while no goroutine is inside Get; goroutines then call
\* Get at the same time.
ThingsThreads == {Singleton(Func("fInt")), Func("fStrOfInt")}

NextThreads ==
  \/ \E x \in ThingsThreads :
       (\A th \in Threads : threads[th].frames = <<>>) /\ ~Crashed /\ Bind(1, <<x>>)
  \/ \E th \in Threads, t \in {"int", "string"} : Start(th, 1, t)
  \/ \E th \in Threads : Step(th)
  \/ Fatal

SpecThreads == Init /\ [][NextThreads]_vars

\* C24: in every interleaving of concurrent Gets the function of a Singleton
\* provider is invoked at most once; a goroutine that is handed the cached
\* value, and a Get of the Singleton's type that succeeds, has the value that
\* one invocation returned, which is then in the cache with isCached set.
C24_SingletonConcurrent ==
  \A id \in 1 .. Len(heap) :
    SingletonOf(id)
      => /\ calls[heap[id].inner] <= 1
         /\ \A th \in Threads :
              /\ \A i \in 1 .. Len(threads[th].frames) :
                   /\ threads[th].frames[i].id = id
                   /\ threads[th].frames[i].pc \in {"unlock", "unmark"}
                   /\ threads[th].frames[i].err = NoErr
                   => /\ threads[th].frames[i].val = FnOut(heap[heap[id].inner].fn, heap[id].inner, 1, <<>>)
                      /\ cells[id] = [isCached |-> TRUE, cached |-> threads[th].frames[i].val]
              /\ /\ threads[th].done /\ threads[th].err = NoErr
                 /\ bindings[1][threads[th].t] = id
                 => /\ threads[th].val = FnOut(heap[heap[id].inner].fn, heap[id].inner, 1, <<>>)
                    /\ cells[id] = [isCached |-> TRUE, cached |-> threads[th].val]

\* Two goroutines are inside Get of the Singleton's type at once: one has the
\* lock and has just stored what the function returned, the other waits for it.
C24_Witness ==
  \E id \in 1 .. Len(heap), th, o \in Threads :
    /\ SingletonOf(id) /\ calls[heap[id].inner] = 1
    /\ At(th, "flag") /\ Top(th).id = id
    /\ At(o, "lock") /\ Top(o).id = id

\* ----------------------------------------------------------- module instances

\* A container installs instances of testModuleParam, whose ProvideInt returns
\* the field param, and testModuleB, whose ProvideString takes the int.
NextModules ==
  \/ \E c \in Containers, v \in ModuleValues("Param") : Install(c, << <<"Param", v>> >>)
  \/ \E c \in Containers : Install(c, << <<"B", Zero>> >>)
  \/ Gets({"int", "string"})

SpecModules == Init /\ [][NextModules]_vars

\* C25: an Install of an instance of a module type that is installed already
\* returns no error and registers nothing when the instance equals the
\* installed one or one of the two is the zero value; when both are non-zero and
\* differ it fails, and the installed instance, the table, the registration
\* order and the bindings stay as they were.
C25_DuplicateModule ==
  [][\A c \in Containers, v \in ModuleValues("Param") :
       Install(c, << <<"Param", v>> >>) /\ modules[c]["Param"] # NoModule
         => IF v = modules[c]["Param"] \/ v = Zero \/ modules[c]["Param"] = Zero
              THEN /\ last'.err = NoErr
                   /\ UNCHANGED <<bindings, bindingOrder, heap>>
                   /\ modules'[c]["Param"] \in {modules[c]["Param"], v}
              ELSE /\ last'.err = Err("unequal")
                   /\ UNCHANGED <<modules, bindings, bindingOrder, heap>>]_vars

\* An Install of a differing instance has just failed on a container whose
\* installed instance is non-zero and whose provider has built its value.
C25_Witness ==
  /\ last.op = "Install" /\ last.err = Err("unequal")
  /\ modules[last.c]["Param"] \notin {NoModule, Zero}
  /\ bindings[last.c]["int"] # 0 /\ cells[bindings[last.c]["int"]].isCached

\* The int of container c is provided by the ProvideInt of its testModuleParam.
ParamProvides(c) ==
  /\ modules[c]["Param"] # NoModule
  /\ bindings[c]["int"] # 0 /\ SingletonOf(bindings[c]["int"])
  /\ heap[heap[bindings[c]["int"]].inner].fn = "Param.ProvideInt"

\* C26: whatever Gets and Installs were made before, a Get of the type a
\* module provides returns the value computed from the fields of the instance
\* that is installed now: the non-zero one that replaced a zero one, or the
\* non-zero one that a later zero one left in place.
C26_ReplacementVisible ==
  last.op = "Get" /\ last.t = "int" /\ ParamProvides(last.c)
    => /\ last.err = NoErr
       /\ last.val[1].dep = <<0, modules[last.c]["Param"][1]>>

\* ------------------------------------------------------------------- cycles

\* Bindings that depend on themselves: a provider of []notQuiteStringer that
\* takes the []Stringer aggregated from it, bare, as a Singleton and as a
\* Sequence, and the modules A and B, on a container or its parent.
ThingsCycles ==
  {Func("fNQSsOfStringers"), Singleton(Func("fNQSsOfStringers")),
   Sequence(Func("fNQSsOfStringers"))}

NextCycles ==
  \/ \E c \in Containers, x \in ThingsCycles :
       Registered(bindingOrder) < MaxChildBinds /\ Bind(c, <<x>>)
  \/ \E c \in Containers, mt \in {"A", "B"} : Install(c, << <<mt, Zero>> >>)
  \/ \E c \in Containers : Child(c)
  \/ Gets({"int", "[]NQS", "[]Stringer"})
  \/ Calls({"useStringers"})

SpecCycles == Init /\ [][NextCycles]_vars

\* C27: every Get and every Call returns, whatever cycle the bindings make:
\* none is left blocked forever on the lock of a Singleton.
C27_GuardTerminates ==
  last.op \in {"Get", "Call"} => ~Dead(last.err)

\* ------------------------------------------------ the container and its binder

\* Injector.Get(t) of the Injector around container c: t, a reflect.Type, is
\* handed to SafeInjector.Get, which takes the type of what it is handed, and
\* an error is the value of a panic.
UnsafeGet(c, t, fail, ord) ==
  LET returned(r) ==
        /\ Got(r)
        /\ last' = [NoLast EXCEPT !.op = "UnsafeGet", !.c = c, !.t = t,
                                  !.err = r.err, !.val = r.val]
  IN  ~Hung /\ returned(getReflected(Mem(cells, calls, stack, fail, ord), c, "*rtype"))

\* Injector.Call(f) of the Injector around container c
UnsafeCall(c, f, fail, ord) ==
  LET returned(r) ==
        /\ Got(r)
        /\ last' = [NoLast EXCEPT !.op = "UnsafeCall", !.c = c, !.f = f, !.ran = r.m.ran,
                                  !.err = r.err,
                                  !.rets = IF r.err = NoErr THEN r.val ELSE <<>>]
  IN  ~Hung /\ returned(Call(Mem(cells, calls, stack, fail, ord), c, f, 0))

\* The types a container and its Injector are asked for themselves by, and the
\* functions that take a binder.
TypesSelf == {"*SafeInjector", "SafeBinder", "*SafeBinder", "*Injector", "Binder"}
TargetsSelf == {"useSafeBinder", "useBinder"}

NextSelf ==
  \/ \E c \in Containers, x \in {Lit("string", 1), Func("fIntOfSafeBinder")} :
       Registered(bindingOrder) < MaxChildBinds /\ Bind(c, <<x>>)
  \/ \E c \in Containers : Child(c)
  \/ Gets(TypesSelf \cup {"int"})
  \/ Calls(TargetsSelf)
  \/ \E c \in Containers, t \in TypesSelf : \E fail \in FailSets("none"), ord \in Ords :
       UnsafeGet(c, t, fail, ord)
  \/ \E c \in Containers, f \in TargetsSelf : \E fail \in FailSets(f), ord \in Ords :
       UnsafeCall(c, f, fail, ord)

SpecSelf == Init /\ [][NextSelf]_vars

\* The provider that takes a SafeBinder is bound on container c.
TakesBinder(c) ==
  /\ bindings[c]["int"] # 0
  /\ heap[bindings[c]["int"]].fn = "fIntOfSafeBinder"

\* C29: on every container, the root and a child alike, a Get of the
\* container's own type and one of its binder interface return the container
\* asked, through the SafeInjector and through the Injector around it, and a
\* function or a provider that takes the binder is called with that container.
C29_SelfAndBinder ==
  /\ last.op = "Get" /\ last.t \in {"*SafeInjector", "SafeBinder", "*SafeBinder"}
       => last.err = NoErr /\ last.val = Self(last.c)
  /\ last.op = "UnsafeGet" => last.err = NoErr /\ last.val[1].n = last.c
  /\ \/ last.op \in {"Call", "UnsafeCall"} /\ last.f = "useSafeBinder"
     \/ last.op = "UnsafeCall" /\ last.f = "useBinder"
       => last.err = NoErr /\ last.ran = 1
  /\ last.op = "Get" /\ last.t = "int" /\ TakesBinder(last.c)
       => last.err = NoErr /\ last.val[1].dep = <<0, last.c>>

\* ------------------------------------------------- a Singleton that failed

\* The first build of the Singleton id failed: its closure has run its builder
\* and holds no value.
FailedOnce(id) == SingletonOf(id) /\ cells[id].isCached /\ cells[id].cached = Nil

\* C30: a Get of a type bound to a Singleton whose first build failed, by the
\* error of its provider or by an unbound or cyclic dependency, reports a
\* failure, the first time and every later time.
C30_FailedSingletonFails ==
  /\ last.op = "Get" /\ bindings[last.c][last.t] # 0
  /\ FailedOnce(bindings[last.c][last.t])
  => last.err # NoErr

\* ------------------------------------------------ aggregates count once

\* The slice types bound on container c whose elements implement interface i.
SliceTypesOf(c, i) ==
  {bt \in SliceTypes : bindings[c][bt] # 0 /\ Implements(Elem(bt), i)}

\* The number of elements the table entries of the slice types T build.
RECURSIVE Contributed(_, _)
Contributed(c, T) ==
  IF T = {} THEN 0
  ELSE LET bt == CHOOSE x \in T : TRUE
       IN  Len(SliceOf(c, bt)) + Contributed(c, T \ {bt})

\* C31: a Get of []Stringer, nothing being bound under []Stringer itself,
\* returns as many elements as the Sequence bindings and literal slices of the
\* matching slice types contribute together, each element being there once.
C31_CountedOnce ==
  last.op = "Get" /\ last.t = "[]Stringer" /\ bindings[last.c]["[]Stringer"] = 0
    /\ last.err = NoErr
    => Len(last.val) = Contributed(last.c, SliceTypesOf(last.c, "Stringer"))

\* ------------------------------------------- an exact binding and the scan

\* Values of two types that implement Stringer, bound under their own types,
\* and others bound under Stringer with BindTo.
ThingsExact == {Lit("NQS", 1), Lit("NQA", 1)}
ImplsExact == {Lit("NQS", 2), Lit("NQA", 2)}

NextExact ==
  \/ \E c \in Containers, x \in ThingsExact : Bind(c, <<x>>)
  \/ \E c \in Containers, x \in ImplsExact : BindTo(c, "*Stringer", x)
  \/ Gets({"Stringer", "*Stringer"})

SpecExact == Init /\ [][NextExact]_vars

\* C32: a Get of Stringer on a container with a binding stored under Stringer
\* returns what that binding builds, whatever else that implements Stringer is
\* bound and in whatever order.
C32_ExactBeatsScan ==
  last.op = "Get" /\ KeyOf(last.t) = "Stringer" /\ bindings[last.c]["Stringer"] # 0
    => last.err = NoErr /\ JustBuilt(bindings[last.c]["Stringer"], last.val)

\* A Get of Stringer has returned the value bound under Stringer, two values
\* of other types that implement Stringer being bound before that binding.
C32_Witness ==
  /\ last.op = "Get" /\ last.t = "Stringer" /\ last.err = NoErr
  /\ bindings[last.c]["NQS"] # 0 /\ bindings[last.c]["NQA"] # 0
  /\ bindings[last.c]["Stringer"] > bindings[last.c]["NQS"]
  /\ bindings[last.c]["Stringer"] > bindings[last.c]["NQA"]
  /\ last.val = heap[bindings[last.c]["Stringer"]].val

\* ------------------------------------------------- the guard is balanced

\* Containers with the modules A and B, whose providers need one another,
\* asked for int and string: with one module a Get fails on an unbound type,
\* with both on a recursive binding.
NextBalanced ==
  \/ \E c \in Containers, mt \in {"A", "B"} :
       Registered(bindingOrder) < MaxChildBinds /\ Install(c, << <<mt, Zero>> >>)
  \/ \E c \in Containers : Child(c)
  \/ Gets({"int", "string"})
  \/ Calls({"useStrInt"})

SpecBalanced == Init /\ [][NextBalanced]_vars

\* C33: once a Get or a Call has returned, with a value, with an error or with
\* the recursive-binding error, no type is marked as under construction on any
\* container.
C33_GuardBalanced ==
  last.op \in {"Get", "Call"} /\ ~Dead(last.err)
    => \A c \in Containers : stack[c] = {}

\* A Get on a child container has returned the recursive-binding error, and
\* nothing is marked on the child or on its parent.
C33_Witness ==
  /\ last.op = "Get" /\ Cause(last.err) = "recursive" /\ parent[last.c] # 0
  /\ \A c \in Containers : stack[c] = {}

\* ---------------------------------------------------- installing modules

\* Instances of testModuleParam, testModuleB and testConfigurableModuleA,
\* installed one or two in a call.
InstancesInstalls ==
  {<<"Param", v>> : v \in ModuleValues("Param")} \cup {<<"B", Zero>>, <<"ConfA", Zero>>}
ModsInstalls ==
  {<<m>> : m \in InstancesInstalls} \cup {<<m, n>> : m, n \in InstancesInstalls}

NextInstalls ==
  \/ \E c \in Containers, mods \in ModsInstalls : Install(c, mods)
  \/ Gets({"int", "string"})

SpecInstalls == Init /\ [][NextInstalls]_vars

\* After the step, the providers of the module type mt are bound on container c
\* and the module is in the registry; a Module has bound what it configures.
InstalledNext(c, mt) ==
  /\ modules'[c][mt] # NoModule
  /\ \A j \in DOMAIN Methods(mt) :
       LET id == bindings'[c][FuncSig(MethodFunc(mt, j)).outs[1]]
       IN  /\ id # 0 /\ heap'[id].kind = "singleton"
           /\ heap'[heap'[id].inner].fn = MethodFunc(mt, j)
  /\ IsModule(mt) => bindings'[c]["int"] # 0

\* C34: after an Install of several modules that returns no error, every
\* module of the call whose type was not installed before is in the registry,
\* configured and with its Provide methods bound, also the ones that follow a
\* duplicate of an installed module.
C34_InstallsEvery ==
  [][\A c \in Containers, mods \in ModsInstalls :
       Install(c, mods) /\ last'.err = NoErr
         => \A i \in DOMAIN mods :
              modules[c][mods[i][1]] = NoModule => InstalledNext(c, mods[i][1])]_vars

\* C39: an Install of a module whose type is not installed that returns an
\* error, from its Configure or from the Bind of one of its Provide methods,
\* leaves the type out of the module registry.
C39_FailedNotInstalled ==
  [][\A c \in Containers, m \in InstancesInstalls :
       Install(c, <<m>>) /\ last'.err # NoErr /\ modules[c][m[1]] = NoModule
         => modules'[c][m[1]] = NoModule]_vars

\* ------------------------------------------- goroutines and the guard

\* C35: of goroutines that call Get at the same time on a container whose
\* bindings require no type through itself, none returns the recursive-binding
\* error.
C35_CyclePerStack ==
  \A th \in Threads :
    threads[th].done /\ Acyclic(1) => Cause(threads[th].err) # "recursive"

\* ---------------------------------------- the container of a provider

\* A provider of string that takes an int, bound on the root, and int
\* literals bound on any container; the string is asked for.
ThingsOwner == {Lit("int", 1), Lit("int", 2), Func("fStrOfInt")}

NextOwner ==
  \/ \E c \in Containers, x \in ThingsOwner :
       /\ Registered(bindingOrder) < MaxBinds
       /\ x.isFunc => parent[c] = 0
       /\ Bind(c, <<x>>)
  \/ \E c \in Containers : Child(c)
  \/ Gets({"string"}) /\ \A i \in 1 .. Len(heap) : calls'[i] <= MaxChildCalls

SpecOwner == Init /\ [][NextOwner]_vars

\* The container whose entry a resolve of t on container c returns: c or the
\* nearest of its ancestors that has one, 0 if none has.
RECURSIVE Owner(_, _)
Owner(c, t) ==
  IF bindings[c][t] # 0 THEN c
  ELSE IF parent[c] = 0 THEN 0
  ELSE Owner(parent[c], t)

\* C36: a Get of string on a child that falls through to the provider bound
\* on an ancestor has the provider's int resolved from that ancestor: it fails
\* on an unbound type when neither the ancestor nor one above it binds int,
\* whatever the child binds, and else the provider is given the int bound
\* there, not the one bound on the child.
C36_ProviderOnOwner ==
  /\ last.op = "Get" /\ last.t = "string"
  /\ Owner(last.c, "string") \notin {0, last.c}
  => LET io == Owner(Owner(last.c, "string"), "int")
     IN  IF io = 0 THEN Cause(last.err) = "unbound" /\ last.val = Nil
         ELSE /\ last.err = NoErr
              /\ last.val[1].dep = <<0, heap[bindings[io]["int"]].val[1].n>>

\* The parent binds the provider and one int, the child another int, and a Get
\* of string on the child was given the parent's int.
C36_Witness ==
  /\ last.op = "Get" /\ last.t = "string" /\ last.err = NoErr
  /\ parent[last.c] # 0 /\ bindings[last.c]["string"] = 0
  /\ bindings[last.c]["int"] # 0 /\ bindings[parent[last.c]]["int"] # 0
  /\ heap[bindings[last.c]["int"]].val # heap[bindings[parent[last.c]]["int"]].val
  /\ last.val[1].dep = <<0, heap[bindings[parent[last.c]]["int"]].val[1].n>>

\* ------------------------------------------- a Singleton in a Sequence

\* C37 as claimed: over the Gets of a slice type bound by Sequence
\* annotations, the function of a contributor bound as Sequence(Singleton(p))
\* is invoked at most once, and that of a contributor bound as Sequence(p) is
\* invoked once more by every Get.
C37_SingletonInChain ==
  [][\A c \in Containers :
       GetOf(c, "[]int") /\ OnlySequences(c, "[]int")
         => \A k \in 1 .. Len(SequencesOf(c, "[]int")) :
              LET w == heap[SequencesOf(c, "[]int")[k]].inner
              IN  /\ SingletonOf(w) => calls'[heap[w].inner] <= 1
                  /\ heap[w].kind = "provider" => calls'[w] = calls[w] + 1]_vars

\* C37, amended: the function of a Singleton contributor is invoked at most
\* once over all Gets, whatever is bound on top of it, and every Get that
\* returns a slice has invoked each provider contributor once more; a Get that
\* fails has invoked each at most once more, the ones after the contributor
\* that failed not at all.
C37_SingletonInChainBuilt ==
  [][\A c \in Containers :
       GetOf(c, "[]int") /\ OnlySequences(c, "[]int")
         => \A k \in 1 .. Len(SequencesOf(c, "[]int")) :
              LET w == heap[SequencesOf(c, "[]int")[k]].inner
                  \* a contributor before this one ended the Get
                  cut == \E j \in 1 .. k - 1 :
                           LET v == heap[SequencesOf(c, "[]int")[j]].inner
                           IN  SingletonOf(v) /\ cells'[v].isCached /\ cells'[v].cached = Nil
              IN  /\ SingletonOf(w) => calls'[heap[w].inner] <= 1
                  /\ heap[w].kind = "provider"
                       => IF last'.err = NoErr THEN calls'[w] = calls[w] + 1
                          ELSE IF cut THEN calls'[w] = calls[w]
                          ELSE calls'[w] \in {calls[w], calls[w] + 1}]_vars

\* A Singleton provider of []int was bound with Sequence and a provider was
\* bound on top of it; a second Get of []int has returned a slice, the function
\* of the Singleton having run once and that of the provider twice.
C37_Witness ==
  /\ last.op = "Get" /\ last.t = "[]int" /\ last.err = NoErr
  /\ OnlySequences(last.c, "[]int") /\ Len(SequencesOf(last.c, "[]int")) >= 2
  /\ LET w1 == heap[SequencesOf(last.c, "[]int")[1]].inner
         w2 == heap[SequencesOf(last.c, "[]int")[2]].inner
     IN  /\ SingletonOf(w1) /\ calls[heap[w1].inner] = 1
         /\ heap[w2].kind = "provider" /\ calls[w2] = 2

\* --------------------------------------------- a Bind of several values

\* Values of four types, one of them the type of the container itself, which
\* SafeNew has bound, and a function that returns only an error, handed to one
\* Bind in every order, up to MaxChildBinds at a time, on a container on which
\* nothing was bound since it was made.
ThingsMulti ==
  {Lit("int", 1), Lit("int", 2), Lit("string", 1), Lit("string", 2), Lit("NQS", 1),
   Lit("*SafeInjector", 1), Func("fErr")}
ArgsMulti == UNION {[1 .. n -> ThingsMulti] : n \in 1 .. MaxChildBinds}

NextMulti ==
  \/ \E c \in Containers, things \in ArgsMulti :
       Len(bindingOrder[c]) = 2 /\ Bind(c, things)
  \/ Gets({"int", "string", "NQS", "*SafeInjector"})

SpecMulti == Init /\ [][NextMulti]_vars

\* The type the thing x is registered under, and whether its Build fails.
TypeOfThing(x) == IF x.isFunc THEN FuncSig(x.f).outs[1] ELSE x.t
Unbuildable(x) == x.isFunc /\ Rejected(x.f)

\* C38: a Bind of several things fails when one of them cannot be built or has
\* the type of an earlier one or of a binding of the table; it then leaves
\* the things before the first such one registered, in their order, each
\* under its type, that one and the ones after it unregistered, and every
\* other entry of the table as it was; what was registered is returned by Get.
C38_BindNotTransactional ==
  /\ [][\A c \in Containers, things \in ArgsMulti :
          last'.op = "Bind" /\ last'.c = c /\ Bind(c, things)
            => LET fails(k) ==
                     \/ Unbuildable(things[k])
                     \/ bindings[c][TypeOfThing(things[k])] # 0
                     \/ \E j \in 1 .. k - 1 : TypeOfThing(things[j]) = TypeOfThing(things[k])
                   F == {k \in DOMAIN things : fails(k)}
                   K == IF F = {} THEN Len(things) + 1
                        ELSE CHOOSE k \in F : \A j \in F : k <= j
               IN  /\ last'.err # NoErr <=> F # {}
                   /\ bindingOrder'[c]
                        = bindingOrder[c] \o [j \in 1 .. K - 1 |-> TypeOfThing(things[j])]
                   /\ \A t \in Types :
                        IF \E j \in 1 .. K - 1 : TypeOfThing(things[j]) = t
                          THEN /\ bindings[c][t] = 0 /\ bindings'[c][t] # 0
                               /\ \E j \in 1 .. K - 1 :
                                    heap'[bindings'[c][t]].val = things[j].v
                        ELSE bindings'[c][t] = bindings[c][t]]_vars
  /\ [](last.op = "Get" /\ bindings[last.c][last.t] # 0
          => last.err = NoErr /\ last.val = heap[bindings[last.c][last.t]].val)

\* A Bind of several values has failed and left the int that came before the
\* failing one registered.
C38_Witness ==
  /\ last.op = "Bind" /\ last.err # NoErr
  /\ bindingOrder[last.c] = <<"*SafeInjector", "SafeBinder", "int">>
====
